---- MODULE Spec2Model ----
(***************************************************************************)
(* A model of goose's file-set-aware scheduler (src/goose/scheduler.py),   *)
(* the unit planner that feeds it (src/goose/parallel.py) and the part of  *)
(* Environment.run that decides a unit's RunResult.                        *)
(*                                                                         *)
(* until_complete is an asynchronous generator.  Its code runs only while  *)
(* the consumer is blocked in __anext__; it is suspended at every yield    *)
(* (the consumer then holds control) and inside asyncio.wait.  The unit    *)
(* tasks make progress only while the event loop has control, that is at   *)
(* those suspension points.                                                *)
(***************************************************************************)
EXTENDS Integers, Sequences, FiniteSets, TLC

\* ------------------------------------------------------------------ bounds

\* Largest value os.cpu_count() reports (it may also report None).
MaxCpu == 4

\* How many times in a row prepare_environment is called on an environment.
MaxCalls == 2

\* The paths of the work tree that the target selection hands to the scheduler.
Files == {"x.py", "y.py"}

\* config.hooks, in configuration (plan) order.
HookIds == <<"A", "B">>

\* os.cpu_count() returning None (falsy, as 0 would be).
None == 0

\* A selected_hook that names no configured hook.
UnknownHook == "Z"

\* The absent selected_hook argument.
NoHook == "-"

\* ----------------------------------------------------------------- helpers

Range(s) == {s[i] : i \in DOMAIN s}

\* Sequences over S without repetition: the iteration orders of frozensets.
DistinctSeqs(S) ==
    UNION {{s \in [1..n -> S] : \A i, j \in 1..n : i # j => s[i] # s[j]} :
           n \in 0..Cardinality(S)}

\* A remove that leaves the list as it is.
RemoveNothing(s, x) == s

\* list.remove(x): drops the first occurrence of x.
RECURSIVE Remove(_, _)
Remove(s, x) ==
    IF s = <<>> THEN <<>>
    ELSE IF Head(s) = x THEN Tail(s)
    ELSE <<Head(s)>> \o Remove(Tail(s), x)

\* The entries of s, in order, that are in the set S.
RECURSIVE Restrict(_, _)
Restrict(s, S) ==
    IF s = <<>> THEN <<>>
    ELSE (IF Head(s) \in S THEN <<Head(s)>> ELSE <<>>) \o Restrict(Tail(s), S)

\* itertools.chain(*seqs): the concatenation of a sequence of sequences.
RECURSIVE Chain(_)
Chain(seqs) == IF seqs = <<>> THEN <<>> ELSE Head(seqs) \o Chain(Tail(seqs))

\* math.ceil(a / b) for a >= 0, b > 0.
Ceil(a, b) == (a + b - 1) \div b

\* A batched that yields whole chunks only.
RECURSIVE BatchedWhole(_, _)
BatchedWhole(s, n) ==
    IF Len(s) < n THEN <<>>
    ELSE <<SubSeq(s, 1, n)>> \o BatchedWhole(SubSeq(s, n + 1, Len(s)), n)

\* itertools.batched(s, n): consecutive chunks of n entries, the last shorter.
RECURSIVE Batched(_, _)
Batched(s, n) ==
    IF s = <<>> THEN <<>>
    ELSE IF Len(s) <= n THEN <<s>>
    ELSE <<SubSeq(s, 1, n)>> \o Batched(SubSeq(s, n + 1, Len(s)), n)

\* ------------------------------------------------------------------- state

VARIABLES
    cpu_count,        \* os.cpu_count(): None or 1..MaxCpu
    hooks,            \* hook id -> [parameterize, read_only, files]
    selected_hook,    \* Scheduler.__init__'s selected_hook
    max_running,      \* Scheduler._max_running
    units,            \* Scheduler._units: hook id -> tuple of units
    remaining_units,  \* Scheduler._remaining_units (a list)
    running_units,    \* Scheduler._running_units: its keys, in insertion order
    task,             \* the asyncio.Task of each key of _running_units
    results,          \* Scheduler._results: unit -> RunResult
    events,           \* the events until_complete has yielded so far
    pc,               \* where until_complete stands
    cand,             \* _schedule_max: the rest of tuple(self._remaining_units)
    prune_at,         \* _prune_running: position in self._running_units.items()
    loop,             \* the while loop of until_complete that is executing
    yielded           \* TRUE while the consumer holds a yielded event

\* One call of Environment.run, step by step.
VARIABLES
    work_tree,        \* path -> the blob git finds in the work tree
    run_pc,           \* where Environment.run stands
    run_unit,         \* Environment.run's unit
    status_prior,     \* Environment.run's status_prior
    coroutine_result, \* what self._backend.run returned
    run_result        \* what Environment.run returned

run_vars == <<work_tree, run_pc, run_unit, status_prior, coroutine_result,
              run_result>>

\* The run command: _run_goose around the scheduler.
VARIABLES
    main_pc,          \* where the run command stands
    prepare_task,     \* environment id -> how its prepare task stands
    done,             \* the done set asyncio.wait returned to _run_goose
    console,          \* what _run_goose and print_summary have printed
    exit_code         \* the exit status of the process, once it has one

main_vars == <<main_pc, prepare_task, done, console, exit_code>>

\* One environment and one call of prepare_environment on it.
VARIABLES
    env_config,       \* Environment.config: [ecosystem, dependencies]
    upgrade,          \* prepare_environment's upgrade
    state,            \* Environment.state
    state_file,       \* goose-state.json in the environment directory
    env_path,         \* TRUE iff the environment directory exists
    manifest,         \* manifest.json in the lock files directory
    lock_dir,         \* lock file path -> its content, or absent
    env_pc,           \* where prepare_environment stands
    on_entry,         \* state, manifest and lock files when it was called
    calls,            \* how many calls of prepare_environment there have been
    ops               \* the operations invoked so far, as they start and end

env_vars == <<env_config, upgrade, state, state_file, env_path, manifest,
              lock_dir, env_pc, on_entry, calls, ops>>

\* What a call of prepare_environment is given, and does not assign.
this_call == <<env_config, upgrade, on_entry, calls>>

\* One function of manifest.py or environment.py, called by itself.
VARIABLES
    called,           \* the function called last, with its arguments
    value             \* what it returned, or the exception it raised

fn_vars == <<called, value>>

\* The process's working directory, and the preparations of the node
\* environments that change it.
VARIABLES
    cwd,              \* os.getcwd()
    node_task         \* environment -> where its preparation stands

cwd_vars == <<cwd, node_task>>

\* What the scheduler's code leaves alone.
apart == <<run_vars, main_vars, env_vars, fn_vars, cwd_vars>>

vars == <<cpu_count, hooks, selected_hook, max_running, units, remaining_units,
          running_units, task, results, events, pc, cand, prune_at, loop,
          yielded, apart>>

config == <<cpu_count, hooks, selected_hook, max_running, units>>

\* The results without error.
RunResultWithoutError == {"ok", "modified"}

\* backend.base.RunResult
RunResult == {"ok", "error", "modified"}

\* What git finds at a path: the blob of HEAD, another blob, or no file.
Blobs == {"head", "edited", "deleted"}

\* No unit, no status, no result: Environment.run has not got that far.
NoUnit == [hook |-> "-", id |-> 0, targets |-> {}]

NoStatus == {<<"-", "-">>}

NoResult == "-"

\* context.environments
Envs == {"e1", "e2"}

\* The process has not exited.
NoExit == -1

\* The scheduler is looked at on its own: the environments are prepared
\* and its consumer may ask for events.
MainIdle ==
    /\ main_pc = "until_complete"
    /\ prepare_task = [env \in Envs |-> "returned"]
    /\ done = Envs
    /\ console = <<>>
    /\ exit_code = NoExit

\* The ecosystems an environment is configured with, the lock files their
\* backends write (in path order) and what a lock file may hold.
Ecosystems == {"python", "node"}

LockPaths(ecosystem) ==
    IF ecosystem = "python" THEN <<"requirements.txt">>
    ELSE <<"package-lock.json", "package.json">>

AllLockPaths == Range(LockPaths("python")) \cup Range(LockPaths("node"))

Contents == {"c1", "c2"}

Absent == "absent"

\* The dependencies a configuration may name, in sorted order.
Dependencies == <<"d1", "d2">>

\* UninitializedState, and no manifest.json.
Uninitialized == [kind |-> "uninitialized"]

NoManifest == [kind |-> "none"]

\* goose-state.json is not there.
NoFile == [exists |-> FALSE]

\* No environment is looked at.
EnvIdle ==
    /\ env_config = [ecosystem |-> "python", dependencies |-> <<"d1">>]
    /\ upgrade = FALSE
    /\ state = Uninitialized
    /\ state_file = NoFile
    /\ env_path = FALSE
    /\ manifest = NoManifest
    /\ lock_dir = [path \in AllLockPaths |-> Absent]
    /\ env_pc = "idle"
    /\ on_entry = [state |-> state, manifest |-> manifest, lock_dir |-> lock_dir]
    /\ calls = 0
    /\ ops = <<>>

\* No function is called by itself.
NoCall == [fn |-> "-"]

NoValue == [kind |-> "-"]

FnIdle == called = NoCall /\ value = NoValue

\* The directory goose is started in.
StartDirectory == "repository"

\* No preparation of a node environment is followed.
CwdIdle == cwd = StartDirectory /\ node_task = <<>>

\* No call of Environment.run is followed step by step.
RunIdle ==
    /\ work_tree = [path \in Files |-> "head"]
    /\ run_pc = "idle"
    /\ run_unit = NoUnit
    /\ status_prior = NoStatus
    /\ coroutine_result = NoResult
    /\ run_result = NoResult

\* ----------------------------------------------------------------- planner

\* max(os.cpu_count(), 2), None counting as no CPU.
CpuCountAtLeast2(cpu) == IF cpu = None \/ cpu < 2 THEN 2 ELSE cpu

\* os.cpu_count() or 2
CpuCountOr2(cpu) == IF cpu = None THEN 2 ELSE cpu

\* filter_hook_targets: the paths a hook is run on, in the iteration order of
\* the frozenset it returns.  hook.files are the targets that pass the hook's
\* types, limit and exclude filters.
FilterHookTargets(hook) == IF ~hook.parameterize THEN <<>> ELSE hook.files

ExecutableUnit(id, hook_id, targets) ==
    [id |-> id, hook |-> hook_id, targets |-> targets]

\* hook_as_executable_units, as the tuple the scheduler makes of it.
HookAsExecutableUnits(hook_id, hook, cpu) ==
    LET target_files == FilterHookTargets(hook) IN
    IF hook.parameterize /\ target_files = <<>> THEN <<>>
    ELSE IF target_files = <<>> THEN <<ExecutableUnit(0, hook_id, {})>>
    ELSE LET process_count == CpuCountOr2(cpu)
             batch_size == Ceil(Len(target_files), process_count)
             batches == Batched(target_files, batch_size)
         IN  [i \in 1..Len(batches) |->
                 ExecutableUnit(i - 1, hook_id, Range(batches[i]))]

\* ------------------------------------------------------------- construction

HookConfig ==
    [parameterize : BOOLEAN, read_only : BOOLEAN, files : DistinctSeqs(Files)]

\* The hooks the scheduler plans: all of them, or the selected one.
SelectedHookIds(selected) ==
    Restrict(HookIds, {h \in Range(HookIds) : selected = NoHook \/ h = selected})

\* Scheduler.__init__: self._units.
PlanUnits(hs, selected, cpu) ==
    [h \in Range(SelectedHookIds(selected)) |->
        HookAsExecutableUnits(h, hs[h], cpu)]

\* chain(*self._units.values()), the dict being in config.hooks order.
PlanOrder(us, selected) ==
    LET ids == SelectedHookIds(selected)
    IN  Chain([i \in 1..Len(ids) |-> us[ids[i]]])

\* Scheduler.__init__ with the configuration given.  An empty self._units
\* (an unknown selected_hook) raises RuntimeError: no scheduler is made.
SchedulerInit(hs, selected, cpu) ==
    /\ cpu_count = cpu
    /\ hooks = hs
    /\ selected_hook = selected
    /\ max_running = CpuCountOr2(cpu)
    /\ units = PlanUnits(hs, selected, cpu)
    /\ remaining_units = PlanOrder(units, selected)
    /\ running_units = <<>>
    /\ task = <<>>
    /\ results = <<>>
    /\ events = <<>>
    /\ pc = IF DOMAIN units = {} THEN "RuntimeError" ELSE "start"
    /\ cand = <<>>
    /\ prune_at = 0
    /\ loop = 1
    /\ yielded = FALSE

\* A hook that is not planned, because another one is selected.
Unplanned == [parameterize |-> FALSE, read_only |-> FALSE, files |-> <<>>]

\* The files of the first hook, in plan order, that has any.
FirstFiles(hs) == IF hs["A"].files # <<>> THEN hs["A"].files ELSE hs["B"].files

\* A hook that is not parameterized has no use for its files, and a hook that
\* is not selected is not looked at: one choice of each stands for all.  The
\* scheduler never reads a path's name, so x.py and y.py are interchangeable:
\* the path that comes first in the plan is called x.py.
Init ==
    \E cpu \in {None} \cup 1..MaxCpu,
       hs \in [Range(HookIds) -> HookConfig],
       selected \in {NoHook, UnknownHook} \cup Range(HookIds) :
        /\ \A h \in Range(HookIds) :
            /\ ~hs[h].parameterize => hs[h].files = <<>>
            /\ selected \notin {NoHook, h} => hs[h] = Unplanned
        /\ FirstFiles(hs) # <<>> => FirstFiles(hs)[1] = "x.py"
        /\ SchedulerInit(hs, selected, cpu)
        /\ RunIdle
        /\ MainIdle
        /\ CwdIdle
        /\ EnvIdle
        /\ FnIdle

\* --------------------------------------------------------- Environment.run

\* Environment.run: the RunResult of a unit whose backend run returned
\* backend_result and whose targets' git status after the run differs
\* (changed) or not from the status before it.
EnvironmentRun(unit, backend_result, changed) ==
    IF hooks[unit.hook].read_only THEN backend_result
    ELSE IF backend_result = "error" THEN backend_result
    ELSE IF changed THEN "modified"
    ELSE backend_result

\* ---------------------------------------------------------- _schedule_max

RunningSet == Range(running_units)

\* RunningFileSet made of the most recently scheduled unit only.
RunningFileSetLast ==
    IF running_units = <<>> THEN {}
    ELSE running_units[Len(running_units)].targets

\* frozenset(chain(*(unit.targets for unit in self._running_units)))
RunningFileSet == UNION {other.targets : other \in RunningSet}

\* Admits with rule 3 looking at the candidate's hook only.
AdmitsCandidateReadOnly(unit) ==
    \/ running_units = <<>>
    \/ unit.targets \cap RunningFileSet = {}
    \/ hooks[unit.hook].read_only

\* Admits without rule 3: overlapping read-only units are serialized.
AdmitsNoReadOnlyRule(unit) ==
    \/ running_units = <<>>
    \/ unit.targets \cap RunningFileSet = {}

\* Admits without the file-set test: only the capacity limits admission.
AdmitsAnyFiles(unit) == TRUE

\* Admits that takes a unit without targets for a unit on every file.
AdmitsWholeTree(unit) ==
    \/ running_units = <<>>
    \/ /\ unit.targets # {}
       /\ \A other_unit \in RunningSet : other_unit.targets # {}
       /\ unit.targets \cap RunningFileSet = {}
    \/ /\ hooks[unit.hook].read_only
       /\ \A other_unit \in RunningSet : hooks[other_unit.hook].read_only

\* The three admission rules of _schedule_max, tried for one candidate.
Admits(unit) ==
    \/ running_units = <<>>
    \/ unit.targets \cap RunningFileSet = {}
    \/ /\ hooks[unit.hook].read_only
       /\ \A other_unit \in RunningSet : hooks[other_unit.hook].read_only

\* AtCapacity with > for >=.
AtCapacityOffByOne == Len(running_units) > max_running

\* AtCapacity that stops one unit early.
AtCapacityEarly == Len(running_units) >= max_running - 1

\* len(self._running_units) >= self._max_running
AtCapacity == Len(running_units) >= max_running

UnitScheduled(unit) == [type |-> "UnitScheduled", unit |-> unit]

UnitFinished(unit, result) ==
    [type |-> "UnitFinished", unit |-> unit, result |-> result]

\* _wait_next: asyncio.wait raises ValueError for an empty set of tasks and
\* otherwise suspends until a task is done.
WaitNext(running) == IF running = <<>> THEN "ValueError" ELSE "asyncio_wait"

\* while self._running_units: _wait_next; otherwise the generator ends.
WhileRunning(running) == IF running # <<>> THEN WaitNext(running) ELSE "done"

\* The head of the first loop with the running units given:
\* while self._remaining_units enters _schedule_max over a copy of the list,
\* or falls through to the second loop.
WhileRemaining(running) ==
    IF remaining_units # <<>>
    THEN pc' = "schedule_max" /\ cand' = remaining_units /\ loop' = 1
    ELSE pc' = WhileRunning(running) /\ cand' = <<>> /\ loop' = 2

\* The consumer asks for the first event: until_complete starts.
UntilComplete ==
    /\ main_pc = "until_complete"
    /\ pc = "start"
    /\ WhileRemaining(running_units)
    /\ yielded' = FALSE
    /\ UNCHANGED <<config, apart, remaining_units, running_units, task, results,
                   events, prune_at>>

\* A _schedule_max that admits any admissible candidate, whatever its place.
ScheduleMaxAdmitsAny ==
    /\ pc = "schedule_max"
    /\ cand # <<>>
    /\ ~AtCapacity
    /\ \E unit \in Range(cand) :
        /\ Admits(unit)
        /\ remaining_units' = Remove(remaining_units, unit)
        /\ running_units' = Append(running_units, unit)
        /\ task' = (unit :> "pending") @@ task
        /\ events' = Append(events, UnitScheduled(unit))
        /\ cand' = Remove(cand, unit)
    /\ yielded' = TRUE
    /\ UNCHANGED <<config, apart, results, pc, prune_at, loop>>

\* _schedule_max, one candidate that is admitted: _schedule_unit moves it from
\* remaining to running with a new task, and UnitScheduled is yielded.
ScheduleMaxAdmit ==
    /\ pc = "schedule_max"
    /\ cand # <<>>
    /\ ~AtCapacity
    /\ LET unit == Head(cand) IN
        /\ Admits(unit)
        /\ remaining_units' = Remove(remaining_units, unit)
        /\ running_units' = Append(running_units, unit)
        /\ task' = (unit :> "pending") @@ task
        /\ events' = Append(events, UnitScheduled(unit))
    /\ cand' = Tail(cand)
    /\ yielded' = TRUE
    /\ UNCHANGED <<config, apart, results, pc, prune_at, loop>>

\* _schedule_max, one candidate that no rule admits: the loop goes on.
ScheduleMaxSkip ==
    /\ pc = "schedule_max"
    /\ cand # <<>>
    /\ ~AtCapacity
    /\ ~Admits(Head(cand))
    /\ cand' = Tail(cand)
    /\ yielded' = FALSE
    /\ UNCHANGED <<config, apart, remaining_units, running_units, task, results,
                   events, pc, prune_at, loop>>

\* _schedule_max ends, at capacity or with every candidate looked at;
\* until_complete breaks out of the first loop if nothing remains and
\* otherwise calls _wait_next.
ScheduleMaxReturn ==
    /\ pc = "schedule_max"
    /\ cand = <<>> \/ AtCapacity
    /\ IF remaining_units = <<>>
       THEN pc' = WhileRunning(running_units) /\ loop' = 2
       ELSE pc' = WaitNext(running_units) /\ loop' = 1
    /\ cand' = <<>>
    /\ yielded' = FALSE
    /\ UNCHANGED <<config, apart, remaining_units, running_units, task, results,
                   events, prune_at>>

\* ------------------------------------------------------------- _wait_next

Done(unit) == task[unit] # "pending"

\* asyncio.wait(..., return_when=FIRST_COMPLETED) returns; _prune_running
\* starts to iterate over self._running_units.items().
AsyncioWaitReturn ==
    /\ pc = "asyncio_wait"
    /\ \E unit \in RunningSet : Done(unit)
    /\ pc' = "prune_running"
    /\ prune_at' = 1
    /\ UNCHANGED <<config, apart, remaining_units, running_units, task, results,
                   events, cand, loop, yielded>>

\* ---------------------------------------------------------- _prune_running

\* The first loop, at a task that is not done: continue.
PruneRunningSkip ==
    /\ pc = "prune_running"
    /\ prune_at <= Len(running_units)
    /\ ~Done(running_units[prune_at])
    /\ prune_at' = prune_at + 1
    /\ yielded' = FALSE
    /\ UNCHANGED <<config, apart, remaining_units, running_units, task, results,
                   events, pc, cand, loop>>

\* The first loop, at a task that returned: its result is stored and
\* UnitFinished is yielded; the unit stays in _running_units for now.
PruneRunningYield ==
    /\ pc = "prune_running"
    /\ prune_at <= Len(running_units)
    /\ LET unit == running_units[prune_at] IN
        /\ task[unit] \in RunResult
        /\ results' = (unit :> task[unit]) @@ results
        /\ events' = Append(events, UnitFinished(unit, task[unit]))
    /\ prune_at' = prune_at + 1
    /\ yielded' = TRUE
    /\ UNCHANGED <<config, apart, remaining_units, running_units, task, pc, cand,
                   loop>>

\* The first loop, at a task that ended with an exception or was cancelled:
\* task.result() raises and the exception leaves until_complete.
PruneRunningRaise ==
    /\ pc = "prune_running"
    /\ prune_at <= Len(running_units)
    /\ task[running_units[prune_at]] = "raised"
    /\ pc' = "Exception"
    /\ yielded' = FALSE
    /\ UNCHANGED <<config, apart, remaining_units, running_units, task, results,
                   events, cand, prune_at, loop>>

\* DelKeys that deletes nothing.
DelKeysNothing(seq, ks) == seq

\* A dict without the keys in ks, the order of the others kept.
DelKeys(seq, ks) == Restrict(seq, Range(seq) \ ks)

\* The second loop: every key of _results is deleted from _running_units.
\* _wait_next is exhausted and until_complete goes round the loop it is in.
PruneRunningDelete ==
    /\ pc = "prune_running"
    /\ prune_at > Len(running_units)
    /\ running_units' = DelKeys(running_units, DOMAIN results)
    /\ task' = [unit \in Range(running_units') |-> task[unit]]
    /\ IF loop = 1
       THEN WhileRemaining(running_units')
       ELSE pc' = WhileRunning(running_units') /\ cand' = <<>> /\ loop' = 2
    /\ prune_at' = 0
    /\ yielded' = FALSE
    /\ UNCHANGED <<config, apart, remaining_units, results, events>>

\* ------------------------------------------------------------------ tasks

\* The event loop has control: the generator is suspended at a yield or
\* inside asyncio.wait.
EventLoopRuns == yielded \/ pc = "asyncio_wait"

\* The task of a running unit returns from Environment.run.
TaskReturn(unit) ==
    /\ EventLoopRuns
    /\ unit \in RunningSet
    /\ task[unit] = "pending"
    /\ \E backend_result \in {"ok", "error"}, changed \in BOOLEAN :
        task' = [task EXCEPT
                    ![unit] = EnvironmentRun(unit, backend_result, changed)]
    /\ UNCHANGED <<config, apart, remaining_units, running_units, results, events,
                   pc, cand, prune_at, loop, yielded>>

\* The task of a running unit ends with an exception, or is cancelled.
TaskRaise(unit) ==
    /\ EventLoopRuns
    /\ unit \in RunningSet
    /\ task[unit] = "pending"
    /\ task' = [task EXCEPT ![unit] = "raised"]
    /\ UNCHANGED <<config, apart, remaining_units, running_units, results, events,
                   pc, cand, prune_at, loop, yielded>>

AllUnits == Range(PlanOrder(units, selected_hook))

TaskReturns == \E unit \in AllUnits : TaskReturn(unit)

TaskRaises == \E unit \in AllUnits : TaskRaise(unit)

\* ------------------------------------------------------------- state query

Null == [kind |-> "null"]

TaskHandle(unit) == [kind |-> "task", unit |-> unit]

Result(r) == [kind |-> "result", result |-> r]

\* _unit_state that looks in _running_units first.
UnitStateRunningFirst(unit) ==
    IF unit \in RunningSet THEN TaskHandle(unit)
    ELSE IF unit \in DOMAIN results THEN Result(results[unit])
    ELSE Null

\* Scheduler._unit_state
UnitState(unit) ==
    IF unit \in DOMAIN results THEN Result(results[unit])
    ELSE IF unit \in RunningSet THEN TaskHandle(unit)
    ELSE Null

\* Scheduler.state
State ==
    [hook \in DOMAIN units |->
        [unit \in Range(units[hook]) |-> UnitState(unit)]]

\* ------------------------------------------- Environment.run, step by step

sched_vars == <<config, remaining_units, running_units, task, results, events,
                pc, cand, prune_at, loop, yielded>>

\* What Environment.run leaves alone.
not_run == <<sched_vars, main_vars, env_vars, fn_vars, cwd_vars>>

\* get_git_status: the entries git status prints for the targets (for the
\* whole work tree when no path is given), sorted; a path whose blob is that
\* of HEAD has no entry and the entry of a deleted path is skipped.
GetGitStatus(targets) ==
    LET paths == IF targets = {} THEN Files ELSE targets
    IN  {<<path, work_tree[path]>> :
            path \in {q \in paths : work_tree[q] \notin {"head", "deleted"}}}

\* A read_only hook: the backend's coroutine is awaited at once.
RunReadOnly ==
    /\ run_pc = "start"
    /\ hooks[run_unit.hook].read_only
    /\ run_pc' = "backend"
    /\ UNCHANGED <<not_run, work_tree, run_unit, status_prior, coroutine_result,
                   run_result>>

\* Environment.run that awaits the backend without a status_prior.
RunGetStatusPriorSkipped ==
    /\ run_pc = "start"
    /\ ~hooks[run_unit.hook].read_only
    /\ run_pc' = "backend"
    /\ UNCHANGED <<not_run, work_tree, run_unit, status_prior, coroutine_result,
                   run_result>>

\* status_prior = await get_git_status(unit.targets); then the backend's
\* coroutine is awaited.
RunGetStatusPrior ==
    /\ run_pc = "start"
    /\ ~hooks[run_unit.hook].read_only
    /\ status_prior' = GetGitStatus(run_unit.targets)
    /\ run_pc' = "backend"
    /\ UNCHANGED <<not_run, work_tree, run_unit, coroutine_result, run_result>>

\* The hook's command writes or deletes a file of the work tree.
BackendWrites ==
    /\ run_pc = "backend"
    /\ \E path \in Files, blob \in Blobs :
        /\ blob # work_tree[path]
        /\ work_tree' = [work_tree EXCEPT ![path] = blob]
    /\ UNCHANGED <<not_run, run_pc, run_unit, status_prior, coroutine_result,
                   run_result>>

\* The backend's run returns: ok if the command's return code is 0, else
\* error.  A read_only hook's result and an error are returned as they are.
BackendReturns ==
    /\ run_pc = "backend"
    /\ \E result \in {"ok", "error"} :
        /\ coroutine_result' = result
        /\ IF hooks[run_unit.hook].read_only \/ result = "error"
           THEN run_result' = result /\ run_pc' = "returned"
           ELSE run_result' = run_result /\ run_pc' = "get_git_status"
    /\ UNCHANGED <<not_run, work_tree, run_unit, status_prior>>

\* status_post = await get_git_status(unit.targets), and the comparison.
RunGetStatusPost ==
    /\ run_pc = "get_git_status"
    /\ LET status_post == GetGitStatus(run_unit.targets) IN
        run_result' = IF status_prior # status_post THEN "modified"
                      ELSE coroutine_result
    /\ run_pc' = "returned"
    /\ UNCHANGED <<not_run, work_tree, run_unit, status_prior, coroutine_result>>

\* The units for which Environment.run is followed: those of hook A alone,
\* planned for one CPU.
RunInit ==
    /\ \E hs \in [Range(HookIds) -> HookConfig] :
        /\ hs["B"] = Unplanned
        /\ ~hs["A"].parameterize => hs["A"].files = <<>>
        /\ hs["A"].files # <<>> => hs["A"].files[1] = "x.py"
        /\ SchedulerInit(hs, "A", 1)
    /\ pc = "start"
    /\ work_tree \in [Files -> Blobs]
    /\ MainIdle
    /\ CwdIdle
    /\ EnvIdle
    /\ FnIdle
    /\ run_pc = "start"
    /\ run_unit \in AllUnits
    /\ status_prior = NoStatus
    /\ coroutine_result = NoResult
    /\ run_result = NoResult

RunNext ==
    \/ RunReadOnly
    \/ RunGetStatusPrior
    \/ BackendWrites
    \/ BackendReturns
    \/ RunGetStatusPost

RunSpec == RunInit /\ [][RunNext]_vars

\* ---------------------------------------------------------- specifications

\* Steps in which every task returns a RunResult.
LiveNext ==
    \/ UntilComplete
    \/ ScheduleMaxAdmit
    \/ ScheduleMaxSkip
    \/ ScheduleMaxReturn
    \/ AsyncioWaitReturn
    \/ PruneRunningSkip
    \/ PruneRunningYield
    \/ PruneRunningDelete
    \/ TaskReturns

Next ==
    \/ LiveNext
    \/ PruneRunningRaise
    \/ TaskRaises

Spec == Init /\ [][Next]_vars

\* The schedulers that were constructed.
LiveInit == Init /\ pc = "start"

\* Every admitted unit's run returns a RunResult, the consumer keeps asking
\* for events and the generator's code runs on.
LiveSpec == LiveInit /\ [][LiveNext]_vars /\ WF_vars(LiveNext)

\* ------------------------------------------------------------- run command

\* print_summary's loop over scheduler.state(): it stops after the hook at
\* which both flags are set.
RECURSIVE SummaryLoop(_, _, _)
SummaryLoop(hook_ids, any_error, any_modified) ==
    IF hook_ids = <<>>
    THEN [any_error |-> any_error, any_modified |-> any_modified]
    ELSE LET unit_states == Range(State[Head(hook_ids)])
             error == any_error \/ Result("error") \in unit_states
             modified == any_modified \/ Result("modified") \in unit_states
         IN  IF error /\ modified
             THEN [any_error |-> error, any_modified |-> modified]
             ELSE SummaryLoop(Tail(hook_ids), error, modified)

\* print_summary that exits with 1 only if a hook errored.
PrintSummaryErrorOnly ==
    LET flags == SummaryLoop(SelectedHookIds(selected_hook), FALSE, FALSE)
    IN  [printed |->
            (IF flags.any_error THEN <<"Some hooks errored.">> ELSE <<>>)
            \o (IF flags.any_modified
                THEN <<"Some hooks made changes.">> ELSE <<>>)
            \o (IF flags.any_error THEN <<>> ELSE <<"All ok!">>),
         exit |-> IF flags.any_error THEN 1 ELSE 0]

\* print_summary: what it prints, and the exit status (sys.exit(1), or 0 as
\* the command returns).
PrintSummary ==
    LET flags == SummaryLoop(SelectedHookIds(selected_hook), FALSE, FALSE)
    IN  [printed |->
            (IF flags.any_error THEN <<"Some hooks errored.">> ELSE <<>>)
            \o (IF flags.any_modified
                THEN <<"Some hooks made changes.">> ELSE <<>>)
            \o (IF flags.any_error \/ flags.any_modified
                THEN <<>> ELSE <<"All ok!">>),
         exit |-> IF flags.any_error \/ flags.any_modified THEN 1 ELSE 0]

\* What _run_goose leaves alone.
not_main == <<run_vars, env_vars, fn_vars, cwd_vars>>

\* The prepare task of an environment ends while _run_goose waits:
\* prepare_environment returns, raises NeedsFreeze, or fails otherwise (a
\* backend failure, or check_should_sync's RuntimeError).
PrepareTaskEnds ==
    /\ main_pc = "asyncio_wait"
    /\ \E env \in Envs, outcome \in {"returned", "NeedsFreeze", "raised"} :
        /\ prepare_task[env] = "pending"
        /\ prepare_task' = [prepare_task EXCEPT ![env] = outcome]
    /\ UNCHANGED <<sched_vars, not_main, main_pc, done, console, exit_code>>

\* Only NeedsFreeze counts as a failed preparation.
FailedNeedsFreezeOnly(env) == prepare_task[env] = "NeedsFreeze"

\* task.result() raises for the prepare task of the environment.
Failed(env) == prepare_task[env] \in {"NeedsFreeze", "raised"}

\* asyncio.wait(prepare_tasks, return_when=FIRST_EXCEPTION) returns, and
\* task.result() is asked of every task in done, in the set's order: the
\* first failed task met ends the command, with sys.exit(1) for NeedsFreeze
\* and with its exception otherwise.
PrepareWaitReturns ==
    /\ main_pc = "asyncio_wait"
    /\ \/ \E env \in Envs : Failed(env)
       \/ \A env \in Envs : prepare_task[env] # "pending"
    /\ done' = {env \in Envs : prepare_task[env] # "pending"}
    /\ IF \A env \in done' : ~Failed(env)
       THEN /\ main_pc' = "until_complete"
            /\ UNCHANGED <<console, exit_code>>
       ELSE \E env \in done' :
            /\ Failed(env)
            /\ IF prepare_task[env] = "NeedsFreeze"
               THEN /\ console' = Append(console,
                        "Missing lock files, run goose upgrade first.")
                    /\ main_pc' = "exit"
               ELSE /\ console' = console
                    /\ main_pc' = "Exception"
            /\ exit_code' = 1
    /\ UNCHANGED <<sched_vars, not_main, prepare_task>>

\* until_complete is exhausted: print_summary.
SchedulerEnds ==
    /\ main_pc = "until_complete"
    /\ pc = "done"
    /\ console' = console \o PrintSummary.printed
    /\ exit_code' = PrintSummary.exit
    /\ main_pc' = "exit"
    /\ UNCHANGED <<sched_vars, not_main, prepare_task, done>>

\* until_complete raises: the exception leaves the command.
SchedulerRaises ==
    /\ main_pc = "until_complete"
    /\ pc \in {"Exception", "ValueError"}
    /\ exit_code' = 1
    /\ main_pc' = "Exception"
    /\ UNCHANGED <<sched_vars, not_main, prepare_task, done, console>>

\* The run command with a scheduler that was constructed, on two CPUs, and
\* the prepare tasks just created.
MainInit ==
    /\ \E hs \in [Range(HookIds) -> HookConfig] :
        /\ \A h \in Range(HookIds) : ~hs[h].parameterize => hs[h].files = <<>>
        /\ FirstFiles(hs) # <<>> => FirstFiles(hs)[1] = "x.py"
        /\ SchedulerInit(hs, NoHook, 2)
    /\ pc = "start"
    /\ RunIdle
    /\ CwdIdle
    /\ EnvIdle
    /\ FnIdle
    /\ main_pc = "asyncio_wait"
    /\ prepare_task = [env \in Envs |-> "pending"]
    /\ done = {}
    /\ console = <<>>
    /\ exit_code = NoExit

MainNext ==
    \/ PrepareTaskEnds
    \/ PrepareWaitReturns
    \/ Next
    \/ SchedulerEnds
    \/ SchedulerRaises

MainSpec == MainInit /\ [][MainNext]_vars

\* ------------------------------------------------------------ manifest.py

\* _get_checksum: the sha256 of a file's content.
GetChecksum(content) == <<"sha256", content>>

\* LockFile
LockFile(path, content) == [path |-> path, checksum |-> GetChecksum(content)]

\* read_lock_file
ReadLockFile(path) == LockFile(path, lock_dir[path])

\* _get_accumulated_checksum: the sha256 over the lock files' checksums, in
\* the order given.
GetAccumulatedChecksum(lock_files) ==
    <<"sha256", [i \in DOMAIN lock_files |-> lock_files[i].checksum]>>

\* The elements of seq that are in order, in the order of order; equal
\* elements stay in the order they have in seq.
RECURSIVE SortAlong(_, _)
SortAlong(order, seq) ==
    IF order = <<>> THEN <<>>
    ELSE SelectSeq(seq, LAMBDA e : e = Head(order))
            \o SortAlong(Tail(order), seq)

\* The dependencies as they were passed.
DependenciesAsGiven(dependencies) == dependencies

\* sorted(source_dependencies)
SortedDependencies(dependencies) == SortAlong(Dependencies, dependencies)

\* The lock file paths, as str orders them.
PathOrder == <<"package-lock.json", "package.json", "requirements.txt">>

\* sorted(lock files): LockFile.__lt__ compares the paths; lock files of one
\* path stay in the order they have.
RECURSIVE SortByPath(_, _)
SortByPath(order, lock_files) ==
    IF order = <<>> THEN <<>>
    ELSE SelectSeq(lock_files, LAMBDA lock_file : lock_file.path = Head(order))
            \o SortByPath(Tail(order), lock_files)

SortedLockFiles(lock_files) == SortByPath(PathOrder, lock_files)

\* LockManifest, as build_manifest makes it.
LockManifest(source_ecosystem, source_dependencies, lock_file_instances) ==
    [kind |-> "manifest",
     source_ecosystem |-> source_ecosystem,
     source_dependencies |-> SortedDependencies(source_dependencies),
     lock_files |-> lock_file_instances,
     checksum |-> GetAccumulatedChecksum(lock_file_instances)]

\* What LockManifest raises on a manifest it does not accept, and what open
\* raises on a path that is not there.
ValidationError == [kind |-> "ValidationError"]

FileNotFoundError == [kind |-> "FileNotFoundError"]

\* The validators of LockManifest, which run when one is constructed or
\* read: each of source_dependencies and lock_files is sorted, unique and
\* not empty, and the checksum is the one accumulated over lock_files.
\* sorted(v) != list(v) compares lock files with LockFile.__eq__, by path;
\* set(v) holds two lock files apart unless path and checksum are the same
\* (the hash of a frozen model is over its fields).
Validate(m) ==
    LET paths == [i \in DOMAIN m.lock_files |-> m.lock_files[i].path]
    IN  IF /\ SortedDependencies(m.source_dependencies) = m.source_dependencies
           /\ SortAlong(PathOrder, paths) = paths
           /\ Cardinality(Range(m.source_dependencies))
                = Len(m.source_dependencies)
           /\ Cardinality(Range(m.lock_files)) = Len(m.lock_files)
           /\ m.source_dependencies # <<>>
           /\ m.lock_files # <<>>
           /\ m.checksum = GetAccumulatedChecksum(m.lock_files)
        THEN m
        ELSE ValidationError

\* build_manifest, from the lock files on disk: read_lock_file opens each
\* path; the manifest is constructed from the sorted lock files and the
\* sorted dependencies, and validated.
BuildManifest(source_ecosystem, source_dependencies, lock_paths) ==
    IF \E i \in DOMAIN lock_paths : lock_dir[lock_paths[i]] = Absent
    THEN FileNotFoundError
    ELSE Validate(LockManifest(source_ecosystem, source_dependencies,
            SortedLockFiles([i \in DOMAIN lock_paths |->
                                ReadLockFile(lock_paths[i])])))

\* LockFile.__eq__ looks at the path alone.
LockFileEq(a, b) == a.path = b.path

\* The loop of check_lock_files over manifest.lock_files.
RECURSIVE CheckEachLockFile(_)
CheckEachLockFile(persisted) ==
    IF persisted = <<>> THEN "none"
    ELSE LET persisted_lock_file == Head(persisted)
             path == persisted_lock_file.path
         IN  IF lock_dir[path] = Absent THEN "missing_lock_file"
             ELSE IF ~LockFileEq(ReadLockFile(path), persisted_lock_file)
                  THEN "manifest_lock_file_mismatch"
             ELSE CheckEachLockFile(Tail(persisted))

\* check_lock_files; state_checksum may be None.
CheckLockFiles(state_checksum) ==
    IF manifest = NoManifest THEN "config_manifest_mismatch"
    ELSE IF env_config.ecosystem # manifest.source_ecosystem
         THEN "config_manifest_mismatch"
    ELSE IF Range(env_config.dependencies) # Range(manifest.source_dependencies)
         THEN "config_manifest_mismatch"
    ELSE IF CheckEachLockFile(manifest.lock_files) # "none"
         THEN CheckEachLockFile(manifest.lock_files)
    ELSE IF state_checksum # manifest.checksum THEN "state_manifest_mismatch"
    ELSE "matching"

\* --------------------------------------------------------- environment.py

InitialState(stage, ecosystem) ==
    [kind |-> "initial", stage |-> stage, ecosystem |-> ecosystem]

SyncedState(checksum, ecosystem) ==
    [kind |-> "synced", stage |-> "synced", checksum |-> checksum,
     ecosystem |-> ecosystem]

InitialStages == {"bootstrapped", "frozen"}

\* state.model_dump_json(): the JSON object of a SyncedState or of an
\* InitialState, which names no class.
ModelDumpJson(s) ==
    IF s.kind = "synced"
    THEN [stage |-> s.stage, checksum |-> s.checksum, ecosystem |-> s.ecosystem]
    ELSE [stage |-> s.stage, ecosystem |-> s.ecosystem]

\* _PersistedState.model_validate_json: SyncedState if the object has its
\* fields and no other (extra is forbidden) and its stage is a SyncedStage,
\* InitialState likewise, and ValidationError for anything else, a text
\* that is not a whole JSON object included.
ModelValidateJson(json) ==
    IF /\ DOMAIN json = {"stage", "checksum", "ecosystem"}
       /\ json.stage = "synced"
       /\ json.ecosystem \in Ecosystems
    THEN SyncedState(json.checksum, json.ecosystem)
    ELSE IF /\ DOMAIN json = {"stage", "ecosystem"}
            /\ json.stage \in InitialStages
            /\ json.ecosystem \in Ecosystems
    THEN InitialState(json.stage, json.ecosystem)
    ELSE ValidationError

\* A write_state that leaves the checksum out.
WriteStateWithoutChecksum(s) ==
    [stage |-> s.stage, ecosystem |-> s.ecosystem]

\* write_state: what goose-state.json holds when write_text has returned.
WriteState(s) == ModelDumpJson(s)

\* read_state: Uninitialized if goose-state.json is not there, and
\* otherwise what its text parses to.
ReadState ==
    IF state_file = NoFile THEN Uninitialized
    ELSE ModelValidateJson(state_file)

\* Environment.check_should_teardown
CheckShouldTeardown ==
    IF state = Uninitialized THEN FALSE
    ELSE env_config.ecosystem # state.ecosystem

\* Environment.check_should_bootstrap
CheckShouldBootstrap == state = Uninitialized

\* state_checksum=None: not the checksum of any manifest.
NoChecksum == <<"None">>

\* A check_should_freeze that does not look for a manifest of another
\* configuration.
CheckShouldFreezeIgnoresConfig ==
    CheckLockFiles(NoChecksum) \in
        {"missing_lock_file", "manifest_lock_file_mismatch"}

\* A check_should_freeze that leaves a missing lock file to sync.
CheckShouldFreezeUnlessMissing ==
    CheckLockFiles(NoChecksum) \in
        {"manifest_lock_file_mismatch", "config_manifest_mismatch"}

\* Environment.check_should_freeze
CheckShouldFreeze ==
    CheckLockFiles(NoChecksum) \in
        {"missing_lock_file", "manifest_lock_file_mismatch",
         "config_manifest_mismatch"}

\* Environment.check_should_sync: "True", "False" or "RuntimeError".
CheckShouldSync ==
    IF state.kind # "synced" THEN "True"
    ELSE LET lock_file_state == CheckLockFiles(state.checksum)
         IN  IF lock_file_state = "matching" THEN "False"
             ELSE IF lock_file_state \in
                        {"missing_lock_file", "state_manifest_mismatch"}
                  THEN "True"
             ELSE "RuntimeError"

\* ---------------------------------------------------- prepare_environment

\* What prepare_environment leaves alone.
not_env == <<sched_vars, run_vars, main_vars, fn_vars, cwd_vars>>

Start(op) == [op |-> op, phase |-> "start"]

End(op) == [op |-> op, phase |-> "end"]

\* check_lock_files is called.
Consulted == [op |-> "check_lock_files", phase |-> "call"]

\* if environment.check_should_teardown(): await environment.teardown()
CheckTeardown ==
    /\ env_pc = "check_should_teardown"
    /\ IF CheckShouldTeardown
       THEN env_pc' = "teardown" /\ ops' = Append(ops, Start("teardown"))
       ELSE env_pc' = "check_should_bootstrap" /\ ops' = ops
    /\ UNCHANGED <<not_env, this_call, state, state_file,
                   env_path, manifest, lock_dir>>

\* A teardown that removes the directory and leaves the state in memory as
\* it was.
TeardownKeepsState ==
    /\ env_pc = "teardown"
    /\ env_path' = FALSE
    /\ state_file' = NoFile
    /\ ops' = Append(ops, End("teardown"))
    /\ env_pc' = "check_should_bootstrap"
    /\ UNCHANGED <<not_env, this_call, state, manifest,
                   lock_dir>>

\* Environment.teardown: rmtree has removed the environment directory,
\* goose-state.json with it.
TeardownReturns ==
    /\ env_pc = "teardown"
    /\ env_path' = FALSE
    /\ state_file' = NoFile
    /\ state' = Uninitialized
    /\ ops' = Append(ops, End("teardown"))
    /\ env_pc' = "check_should_bootstrap"
    /\ UNCHANGED <<not_env, this_call, manifest, lock_dir>>

\* if environment.check_should_bootstrap(): await environment.bootstrap()
CheckBootstrap ==
    /\ env_pc = "check_should_bootstrap"
    /\ IF CheckShouldBootstrap
       THEN env_pc' = "bootstrap" /\ ops' = Append(ops, Start("bootstrap"))
       ELSE env_pc' = "upgrade" /\ ops' = ops
    /\ UNCHANGED <<not_env, this_call, state, state_file,
                   env_path, manifest, lock_dir>>

\* Environment.bootstrap: the backend has made the environment directory;
\* the state is set and written.
BootstrapReturns ==
    /\ env_pc = "bootstrap"
    /\ env_path' = TRUE
    /\ state' = InitialState("bootstrapped", env_config.ecosystem)
    /\ state_file' = WriteState(state')
    /\ ops' = Append(ops, End("bootstrap"))
    /\ env_pc' = "upgrade"
    /\ UNCHANGED <<not_env, this_call, manifest, lock_dir>>

\* prepare_environment that freezes when check_should_freeze says so, and
\* raises nothing.
CheckFreezeWhenNeeded ==
    /\ env_pc = "upgrade"
    /\ IF upgrade
       THEN env_pc' = "freeze" /\ ops' = Append(ops, Start("freeze"))
       ELSE IF CheckShouldFreeze
       THEN /\ env_pc' = "freeze"
            /\ ops' = Append(Append(ops, Consulted), Start("freeze"))
       ELSE env_pc' = "check_should_sync" /\ ops' = Append(ops, Consulted)
    /\ UNCHANGED <<not_env, this_call, state, state_file,
                   env_path, manifest, lock_dir>>

\* prepare_environment that, with upgrade, freezes only when
\* check_should_freeze says so.
CheckFreezeUpgradeConsults ==
    /\ env_pc = "upgrade"
    /\ IF CheckShouldFreeze
       THEN IF upgrade
            THEN /\ env_pc' = "freeze"
                 /\ ops' = Append(Append(ops, Consulted), Start("freeze"))
            ELSE env_pc' = "NeedsFreeze" /\ ops' = Append(ops, Consulted)
       ELSE env_pc' = "check_should_sync" /\ ops' = Append(ops, Consulted)
    /\ UNCHANGED <<not_env, this_call, state, state_file,
                   env_path, manifest, lock_dir>>

\* prepare_environment that goes on to its sync test whatever
\* check_should_freeze says.
CheckFreezeNeverRaises ==
    /\ env_pc = "upgrade"
    /\ IF upgrade
       THEN env_pc' = "freeze" /\ ops' = Append(ops, Start("freeze"))
       ELSE env_pc' = "check_should_sync" /\ ops' = Append(ops, Consulted)
    /\ UNCHANGED <<not_env, this_call, state, state_file,
                   env_path, manifest, lock_dir>>

\* if upgrade: await environment.freeze()
\* elif environment.check_should_freeze(): raise NeedsFreeze
CheckFreeze ==
    /\ env_pc = "upgrade"
    /\ IF upgrade
       THEN env_pc' = "freeze" /\ ops' = Append(ops, Start("freeze"))
       ELSE /\ ops' = Append(ops, Consulted)
            /\ env_pc' = IF CheckShouldFreeze THEN "NeedsFreeze"
                         ELSE "check_should_sync"
    /\ UNCHANGED <<not_env, this_call, state, state_file,
                   env_path, manifest, lock_dir>>

\* The lock files directory after the backend's freeze has written the
\* ecosystem's lock files anew.
Frozen(dir, ecosystem) ==
    {d \in [AllLockPaths -> Contents \cup {Absent}] :
        \A path \in AllLockPaths :
            IF path \in Range(LockPaths(ecosystem)) THEN d[path] \in Contents
            ELSE d[path] = dir[path]}

\* Environment.freeze: the backend has written the lock files and the
\* manifest built from them; the state is set and written.
FreezeReturns ==
    /\ env_pc = "freeze"
    /\ UNCHANGED <<not_env, this_call, env_path>>
    /\ lock_dir' \in Frozen(lock_dir, env_config.ecosystem)
    /\ manifest' = BuildManifest(env_config.ecosystem, env_config.dependencies,
                                 LockPaths(env_config.ecosystem))'
    /\ state' = InitialState("frozen", env_config.ecosystem)
    /\ state_file' = WriteState(state')
    /\ ops' = Append(ops, End("freeze"))
    /\ env_pc' = "check_should_sync"

\* if environment.check_should_sync(): await environment.sync();
\* Environment.sync reads the manifest before it calls the backend.
CheckSync ==
    /\ env_pc = "check_should_sync"
    /\ LET log == IF state.kind = "synced" THEN Append(ops, Consulted)
                  ELSE ops
       IN  IF CheckShouldSync = "RuntimeError"
           THEN env_pc' = "RuntimeError" /\ ops' = log
           ELSE IF CheckShouldSync = "False"
           THEN env_pc' = "returned" /\ ops' = log
           ELSE /\ ops' = Append(log, Start("sync"))
                /\ env_pc' = IF manifest = NoManifest THEN "Exception"
                             ELSE "sync"
    /\ UNCHANGED <<not_env, this_call, state, state_file,
                   env_path, manifest, lock_dir>>

\* Environment.sync that writes a state without the manifest's checksum.
SyncReturnsWithoutChecksum ==
    /\ env_pc = "sync"
    /\ state' = SyncedState(NoChecksum, env_config.ecosystem)
    /\ state_file' = WriteState(state')
    /\ ops' = Append(ops, End("sync"))
    /\ env_pc' = "returned"
    /\ UNCHANGED <<not_env, this_call, env_path, manifest, lock_dir>>

\* Environment.sync after which prepare_environment goes back to its
\* upgrade test.
SyncReturnsToUpgrade ==
    /\ env_pc = "sync"
    /\ state' = SyncedState(manifest.checksum, env_config.ecosystem)
    /\ state_file' = WriteState(state')
    /\ ops' = Append(ops, End("sync"))
    /\ env_pc' = "upgrade"
    /\ UNCHANGED <<not_env, this_call, env_path, manifest,
                   lock_dir>>

\* Environment.sync: the backend has installed the dependencies; the state
\* is set, with the checksum of the manifest, and written.  Nothing writes
\* manifest.json while the backend's sync runs.
SyncReturns ==
    /\ env_pc = "sync"
    /\ state' = SyncedState(manifest.checksum, env_config.ecosystem)
    /\ state_file' = WriteState(state')
    /\ ops' = Append(ops, End("sync"))
    /\ env_pc' = "returned"
    /\ UNCHANGED <<not_env, this_call, env_path, manifest,
                   lock_dir>>

\* A backend failure in an Environment that assigns its state before it
\* awaits the backend.
BackendRaisesAfterAssignment ==
    /\ env_pc \in {"bootstrap", "freeze", "sync"}
    /\ state' = IF env_pc = "sync"
                THEN SyncedState(manifest.checksum, env_config.ecosystem)
                ELSE InitialState(IF env_pc = "bootstrap" THEN "bootstrapped"
                                  ELSE "frozen", env_config.ecosystem)
    /\ env_pc' = "Exception"
    /\ UNCHANGED <<not_env, this_call, state_file, env_path, lock_dir,
                   manifest, ops>>

\* The backend's bootstrap, freeze or sync raises: the state is left as it
\* is; bootstrap may have made the directory and freeze may have written the
\* lock files.
BackendRaises ==
    /\ env_pc \in {"bootstrap", "freeze", "sync"}
    /\ env_path' \in IF env_pc = "bootstrap" THEN {env_path, TRUE}
                     ELSE {env_path}
    /\ lock_dir' \in IF env_pc = "freeze"
                     THEN {lock_dir} \cup Frozen(lock_dir, env_config.ecosystem)
                     ELSE {lock_dir}
    /\ env_pc' = "Exception"
    /\ UNCHANGED <<not_env, this_call, state, state_file,
                   manifest, ops>>

\* The states goose-state.json may hold and the manifests manifest.json may
\* hold: those an earlier run has written.  One content stands for those of
\* the lock files of node.
InitialContents(path) ==
    IF path \in Range(LockPaths("python")) THEN Contents ELSE {"c1"}

Manifests ==
    UNION {{LockManifest(ecosystem, dependencies,
                [i \in DOMAIN LockPaths(ecosystem) |->
                    LockFile(LockPaths(ecosystem)[i], content[i])]) :
            content \in {c \in [DOMAIN LockPaths(ecosystem) -> Contents] :
                \A i \in DOMAIN c :
                    c[i] \in InitialContents(LockPaths(ecosystem)[i])}} :
           ecosystem \in Ecosystems,
           dependencies \in DistinctSeqs(Range(Dependencies)) \ {<<>>}}

PersistedStates ==
    {InitialState(stage, ecosystem) :
        stage \in {"bootstrapped", "frozen"}, ecosystem \in Ecosystems}
    \cup {SyncedState(m.checksum, ecosystem) :
            m \in Manifests, ecosystem \in Ecosystems}

\* build_environments has read the state; prepare_environment is called.
EnvInit ==
    /\ SchedulerInit([h \in Range(HookIds) |-> Unplanned], NoHook, 1)
    /\ RunIdle
    /\ MainIdle
    /\ CwdIdle
    /\ FnIdle
    /\ env_config \in [ecosystem : Ecosystems,
                       dependencies : {<<"d1">>, <<"d2", "d1">>}]
    /\ upgrade \in BOOLEAN
    /\ state_file \in {NoFile} \cup {WriteState(s) : s \in PersistedStates}
    /\ state = ReadState
    /\ env_path \in IF state_file = NoFile THEN BOOLEAN ELSE {TRUE}
    /\ manifest \in {NoManifest} \cup Manifests
    /\ lock_dir \in {d \in [AllLockPaths -> Contents \cup {Absent}] :
                        \A path \in AllLockPaths :
                            d[path] \in InitialContents(path) \cup {Absent}}
    /\ env_pc = "check_should_teardown"
    /\ on_entry = [state |-> state, manifest |-> manifest, lock_dir |-> lock_dir]
    /\ calls = 1
    /\ ops = <<>>

\* goose is run again after a call that returned: build_environments reads
\* the state anew and prepare_environment is called, with or without
\* upgrade, on the same configuration and lock file directory.
PrepareAgain ==
    /\ env_pc = "returned"
    /\ calls < MaxCalls
    /\ calls' = calls + 1
    /\ upgrade' \in BOOLEAN
    /\ state' = ReadState
    /\ on_entry' = [state |-> state', manifest |-> manifest,
                    lock_dir |-> lock_dir]
    /\ env_pc' = "check_should_teardown"
    /\ ops' = <<>>
    /\ UNCHANGED <<not_env, env_config, state_file, env_path, manifest,
                   lock_dir>>

EnvNext ==
    \/ CheckTeardown
    \/ TeardownReturns
    \/ CheckBootstrap
    \/ BootstrapReturns
    \/ CheckFreeze
    \/ FreezeReturns
    \/ CheckSync
    \/ SyncReturns
    \/ BackendRaises
    \/ PrepareAgain

EnvSpec == EnvInit /\ [][EnvNext]_vars

\* ------------------------------------------- check_lock_files, by itself

\* What a function of manifest.py or environment.py leaves alone when it is
\* called by itself.
not_fn == <<sched_vars, run_vars, main_vars, cwd_vars, env_config, upgrade,
            state, env_path, env_pc, on_entry, calls, ops>>

\* The values of state_checksum: None, and the checksums a state may hold.
StateChecksums == {NoChecksum} \cup {m.checksum : m \in Manifests}

\* check_lock_files(lock_files_path, state_checksum, config): it reads the
\* manifest and the lock files and writes nothing.
CheckLockFilesCalled ==
    \E state_checksum \in StateChecksums :
        /\ called' = [fn |-> "check_lock_files",
                      state_checksum |-> state_checksum]
        /\ value' = CheckLockFiles(state_checksum)
        /\ UNCHANGED <<not_fn, state_file, manifest, lock_dir>>

\* A lock files directory with or without a manifest, and a configuration.
LockInit ==
    /\ SchedulerInit([h \in Range(HookIds) |-> Unplanned], NoHook, 1)
    /\ RunIdle
    /\ MainIdle
    /\ CwdIdle
    /\ FnIdle
    /\ env_config \in [ecosystem : Ecosystems,
                       dependencies : {<<"d1">>, <<"d2", "d1">>}]
    /\ upgrade = FALSE
    /\ state = Uninitialized
    /\ state_file = NoFile
    /\ env_path = FALSE
    /\ manifest \in {NoManifest} \cup Manifests
    /\ lock_dir \in {d \in [AllLockPaths -> Contents \cup {Absent}] :
                        \A path \in AllLockPaths :
                            d[path] \in InitialContents(path) \cup {Absent}}
    /\ env_pc = "idle"
    /\ on_entry = [state |-> state, manifest |-> manifest, lock_dir |-> lock_dir]
    /\ calls = 0
    /\ ops = <<>>

LockNext == CheckLockFilesCalled

LockSpec == LockInit /\ [][LockNext]_vars

\* --------------------------------- build_manifest and LockManifest, alone

\* The longest sequence of dependencies, of lock file paths and of lock
\* files that is passed.
MaxLen == 2

SeqsUpTo(S, n) == UNION {[1..k -> S] : k \in 0..n}

\* Manifests as they may be handed to LockManifest: any dependencies, any
\* lock files, and a checksum that is or is not the accumulated one.
RawManifests ==
    {[kind |-> "manifest", source_ecosystem |-> ecosystem,
      source_dependencies |-> dependencies, lock_files |-> lock_files,
      checksum |-> checksum] :
        ecosystem \in {"python"},
        dependencies \in SeqsUpTo(Range(Dependencies), MaxLen),
        lock_files \in SeqsUpTo({LockFile(path, content) :
                        path \in Range(LockPaths("node")),
                        content \in Contents}, MaxLen),
        checksum \in {GetAccumulatedChecksum(<<LockFile(path, "c1")>>) :
                        path \in Range(LockPaths("node"))}}
    \cup
    {LockManifest(ecosystem, dependencies, lock_files) :
        ecosystem \in {"python"},
        dependencies \in SeqsUpTo(Range(Dependencies), MaxLen),
        lock_files \in SeqsUpTo({LockFile(path, content) :
                        path \in Range(LockPaths("node")),
                        content \in Contents}, MaxLen)}

\* build_manifest(source_ecosystem, source_dependencies, lock_files,
\* lock_files_path), with the dependencies and the paths in any order.
BuildManifestCalled ==
    \E ecosystem \in Ecosystems,
       dependencies \in SeqsUpTo(Range(Dependencies), MaxLen),
       lock_paths \in SeqsUpTo(AllLockPaths, MaxLen) :
        /\ called = NoCall
        /\ called' = [fn |-> "build_manifest",
                      source_ecosystem |-> ecosystem,
                      source_dependencies |-> dependencies,
                      lock_files |-> lock_paths]
        /\ value' = BuildManifest(ecosystem, dependencies, lock_paths)
        /\ UNCHANGED <<not_fn, state_file, manifest, lock_dir>>

\* LockManifest.model_validate on a manifest from anywhere.
ValidateCalled ==
    \E m \in RawManifests :
        /\ called = NoCall
        /\ called' = [fn |-> "LockManifest", manifest |-> m]
        /\ value' = Validate(m)
        /\ UNCHANGED <<not_fn, state_file, manifest, lock_dir>>

\* A lock files directory, with some lock files in it.
ManifestInit ==
    /\ SchedulerInit([h \in Range(HookIds) |-> Unplanned], NoHook, 1)
    /\ RunIdle
    /\ MainIdle
    /\ CwdIdle
    /\ FnIdle
    /\ env_config = [ecosystem |-> "python", dependencies |-> <<"d1">>]
    /\ upgrade = FALSE
    /\ state = Uninitialized
    /\ state_file = NoFile
    /\ env_path = FALSE
    /\ manifest = NoManifest
    /\ lock_dir \in {d \in [AllLockPaths -> Contents \cup {Absent}] :
                        \A path \in AllLockPaths :
                            d[path] \in InitialContents(path) \cup {Absent}}
    /\ env_pc = "idle"
    /\ on_entry = [state |-> state, manifest |-> manifest, lock_dir |-> lock_dir]
    /\ calls = 0
    /\ ops = <<>>

ManifestNext == BuildManifestCalled \/ ValidateCalled

ManifestSpec == ManifestInit /\ [][ManifestNext]_vars

\* ------------------------------------- write_state and read_state, alone

\* goose-state.json between the moment write_text opens it for writing,
\* which empties it, and the moment the whole text is in it.
Emptied == [text |-> "empty"]

Incomplete == [text |-> "prefix"]

\* write_state(env_dir, state): write_text opens goose-state.json for
\* writing.
WriteTextOpens ==
    \E s \in PersistedStates :
        /\ called = NoCall
        /\ called' = [fn |-> "write_state", state |-> s, at |-> "open",
                      before |-> state_file]
        /\ state_file' = Emptied
        /\ UNCHANGED <<not_fn, value, manifest, lock_dir>>

\* A part of the text has reached the file.
WriteTextWrites ==
    /\ called.fn = "write_state"
    /\ called.at = "open"
    /\ called' = [called EXCEPT !.at = "write"]
    /\ state_file' = Incomplete
    /\ UNCHANGED <<not_fn, value, manifest, lock_dir>>

\* The text is written and the file closed; write_state returns.
WriteStateReturns ==
    /\ called.fn = "write_state"
    /\ called.at \in {"open", "write"}
    /\ called' = [called EXCEPT !.at = "returned"]
    /\ state_file' = WriteState(called.state)
    /\ UNCHANGED <<not_fn, value, manifest, lock_dir>>

\* The process is killed while write_text is at work.
WriteStateInterrupted ==
    /\ called.fn = "write_state"
    /\ called.at \in {"open", "write"}
    /\ called' = [called EXCEPT !.at = "killed"]
    /\ UNCHANGED <<not_fn, value, state_file, manifest, lock_dir>>

\* read_state(env_dir), in the same process or in the next one.
ReadStateCalled ==
    /\ called.fn # "read_state"
    /\ called.fn = "write_state" => called.at \in {"returned", "killed"}
    /\ called' = [fn |-> "read_state", after |-> called]
    /\ value' = ReadState
    /\ UNCHANGED <<not_fn, state_file, manifest, lock_dir>>

\* An environment directory with or without a state file.
StateInit ==
    /\ SchedulerInit([h \in Range(HookIds) |-> Unplanned], NoHook, 1)
    /\ RunIdle
    /\ MainIdle
    /\ CwdIdle
    /\ FnIdle
    /\ env_config = [ecosystem |-> "python", dependencies |-> <<"d1">>]
    /\ upgrade = FALSE
    /\ state = Uninitialized
    /\ state_file \in {NoFile} \cup {WriteState(s) : s \in PersistedStates}
    /\ env_path = TRUE
    /\ manifest = NoManifest
    /\ lock_dir = [path \in AllLockPaths |-> Absent]
    /\ env_pc = "idle"
    /\ on_entry = [state |-> state, manifest |-> manifest, lock_dir |-> lock_dir]
    /\ calls = 0
    /\ ops = <<>>

StateNext ==
    \/ WriteTextOpens
    \/ WriteTextWrites
    \/ WriteStateReturns
    \/ WriteStateInterrupted
    \/ ReadStateCalled

StateSpec == StateInit /\ [][StateNext]_vars

\* ----------------------------------------- hook_as_executable_units, alone

\* The paths of the targets that pass a hook's filters.
TargetPaths == {"p1", "p2", "p3", "p4", "p5"}

\* hook_as_executable_units(hook, targets) returns; the hook's files are
\* what filter_hook_targets lets through when the hook is parameterized.
HookAsExecutableUnitsReturns ==
    /\ called.fn = "hook_as_executable_units"
    /\ called.at = "call"
    /\ called' = [called EXCEPT !.at = "returned"]
    /\ value' = HookAsExecutableUnits("A", called.hook, called.cpu_count)
    /\ UNCHANGED <<not_fn, state_file, manifest, lock_dir>>

\* A hook, parameterized or not, the targets that pass its filters in the
\* iteration order of the frozenset, and what os.cpu_count() reports.
\* The scheduler made on the same machine reads the same os.cpu_count().
UnitsInit ==
    /\ called \in [fn : {"hook_as_executable_units"},
                   hook : [parameterize : BOOLEAN, read_only : {FALSE},
                           files : DistinctSeqs(TargetPaths)],
                   cpu_count : {None} \cup 1..MaxCpu,
                   at : {"call"}]
    /\ value = NoValue
    /\ SchedulerInit([h \in Range(HookIds) |-> Unplanned], NoHook,
                     called.cpu_count)
    /\ RunIdle
    /\ MainIdle
    /\ CwdIdle
    /\ EnvIdle

UnitsNext == HookAsExecutableUnitsReturns

UnitsSpec == UnitsInit /\ [][UnitsNext]_vars

\* ------------------------------------------------ targets.py, by itself

\* Paths as pathlib has them: the directories from the top of the work tree,
\* then the file's stem and its extension.
Path(dirs, stem, ext) == [dirs |-> dirs, stem |-> stem, ext |-> ext]

\* What git lists: files in and outside the state directory, a file that is
\* itself called .goose, and a directory called .goose further down.
ListedPaths ==
    << Path(<<".goose">>, "state", "json"),
       Path(<<>>, ".goose", ""),
       Path(<<>>, "a", "py"),
       Path(<<>>, "a", "json"),
       Path(<<"src">>, "a", "py"),
       Path(<<"src">>, "b", "json"),
       Path(<<"src", ".goose">>, "a", "py"),
       Path(<<".goose", "env">>, "x", "py") >>

\* Compiled patterns of two shapes: ^dir/.* and \.ext$.
UnderDir(dir) == [shape |-> "^dir/.*", dir |-> dir]

WithExt(ext) == [shape |-> "\\.ext$", ext |-> ext]

Patterns == {UnderDir(".goose"), UnderDir("src"), WithExt("py"), WithExt("json")}

\* pattern.search(str(path)) is not None
Search(pattern, path) ==
    IF pattern.shape = "^dir/.*"
    THEN path.dirs # <<>> /\ path.dirs[1] = pattern.dir
    ELSE path.ext = pattern.ext

PathMatchesPatterns(path, patterns) ==
    \E i \in DOMAIN patterns : Search(patterns[i], path)

\* A matcher that forgets the limit when there is something to exclude.
PathMatcherForgetsLimit(exclude, limit, path) ==
    IF exclude = <<>> /\ limit = <<>> THEN TRUE
    ELSE IF exclude # <<>> THEN ~PathMatchesPatterns(path, exclude)
    ELSE PathMatchesPatterns(path, limit)

\* _get_path_matcher(exclude, limit)(path)
GetPathMatcher(exclude, limit, path) ==
    IF exclude = <<>> /\ limit = <<>> THEN TRUE
    ELSE IF limit = <<>> THEN ~PathMatchesPatterns(path, exclude)
    ELSE IF exclude = <<>> THEN PathMatchesPatterns(path, limit)
    ELSE /\ PathMatchesPatterns(path, limit)
         /\ ~PathMatchesPatterns(path, exclude)

BuiltinExcludes == <<UnderDir(".goose")>>

\* identify's tags_from_filename, as far as the extension decides.
TagsFromFilename(path) ==
    IF path.ext = "py" THEN {"text", "python"}
    ELSE IF path.ext = "json" THEN {"text", "json"}
    ELSE {"text"}

Target(path) == [path |-> path, tags |-> TagsFromFilename(path)]

RECURSIVE TargetsFromPaths(_, _, _)
TargetsFromPaths(exclude, limit, paths) ==
    IF paths = <<>> THEN <<>>
    ELSE (IF GetPathMatcher(exclude, limit, Head(paths))
          THEN <<Target(Head(paths))>> ELSE <<>>)
         \o TargetsFromPaths(exclude, limit, Tail(paths))

\* get_targets_from_paths(config, paths)
GetTargetsFromPaths(config_exclude, config_limit, paths) ==
    TargetsFromPaths(config_exclude \o BuiltinExcludes, config_limit, paths)

PatternLists == SeqsUpTo(Patterns, MaxLen)

\* The matcher made of exclude and limit is asked about a path.
GetPathMatcherReturns ==
    /\ called.fn = "_get_path_matcher"
    /\ called.at = "call"
    /\ called' = [called EXCEPT !.at = "returned"]
    /\ value' = [kind |-> "bool",
                 is |-> GetPathMatcher(called.exclude, called.limit,
                                       called.path)]
    /\ UNCHANGED <<not_fn, state_file, manifest, lock_dir>>

\* get_targets_from_paths returns the targets of the listed paths.
GetTargetsFromPathsReturns ==
    /\ called.fn = "get_targets_from_paths"
    /\ called.at = "call"
    /\ called' = [called EXCEPT !.at = "returned"]
    /\ value' = [kind |-> "targets",
                 targets |-> GetTargetsFromPaths(called.exclude, called.limit,
                                                 called.paths)]
    /\ UNCHANGED <<not_fn, state_file, manifest, lock_dir>>

\* Any exclude and limit lists, empty ones included, either handed to
\* _get_path_matcher with a path or, as config.exclude and config.limit, to
\* get_targets_from_paths with the paths git lists.
TargetsInit ==
    /\ called \in
        [fn : {"_get_path_matcher"}, exclude : PatternLists,
         limit : PatternLists, path : Range(ListedPaths), at : {"call"}]
        \cup
        [fn : {"get_targets_from_paths"}, exclude : PatternLists,
         limit : PatternLists, paths : {ListedPaths}, at : {"call"}]
    /\ value = NoValue
    /\ SchedulerInit([h \in Range(HookIds) |-> Unplanned], NoHook, 1)
    /\ RunIdle
    /\ MainIdle
    /\ CwdIdle
    /\ EnvIdle

TargetsNext ==
    \/ GetPathMatcherReturns
    \/ GetTargetsFromPathsReturns

TargetsSpec == TargetsInit /\ [][TargetsNext]_vars

\* ------------------------------------------- config.py and gather_context

\* An environment given without an id.
NoId == "-"

\* The environments and hooks of goose.yaml as yaml.safe_load returns them,
\* as far as the validators of Config read them.
RawEnvironments == [id : {NoId, "python", "lint"}, ecosystem : {"python", "node"}]

RawHooks == [id : {"A", "B"}, environment : {"python", "node", "lint"}]

\* EnvironmentConfig.infer_id: an environment without id is named after its
\* ecosystem's language.
InferId(data) ==
    IF data.id # NoId THEN data ELSE [data EXCEPT !.id = data.ecosystem]

\* Config.model_validate that does not look at the hooks' ids.
ModelValidateIgnoresHookIds(data) ==
    LET environments == [i \in DOMAIN data.environments |->
                            InferId(data.environments[i])]
        ids == {environments[i].id : i \in DOMAIN environments}
    IN  IF \E i \in DOMAIN data.hooks : data.hooks[i].environment \notin ids
        THEN ValidationError
        ELSE IF Cardinality(ids) # Len(environments)
        THEN ValidationError
        ELSE [kind |-> "Config", environments |-> environments,
              hooks |-> data.hooks]

\* Config.model_validate(data): the fields are validated, each environment
\* by EnvironmentConfig, and then the three validators of Config run.
ModelValidate(data) ==
    LET environments == [i \in DOMAIN data.environments |->
                            InferId(data.environments[i])]
        ids == {environments[i].id : i \in DOMAIN environments}
    IN  IF \E i \in DOMAIN data.hooks : data.hooks[i].environment \notin ids
        THEN ValidationError
        ELSE IF Cardinality({data.hooks[i].id : i \in DOMAIN data.hooks})
                    # Len(data.hooks)
        THEN ValidationError
        ELSE IF Cardinality(ids) # Len(environments)
        THEN ValidationError
        ELSE [kind |-> "Config", environments |-> environments,
              hooks |-> data.hooks]

\* gather_context: lock_files_path.mkdir(exist_ok=True)
GatherContextMkdir ==
    /\ called.fn = "gather_context"
    /\ called.at = "mkdir"
    /\ called' = [called EXCEPT !.at = "load_config", !.lock_files_path = TRUE]
    /\ UNCHANGED <<not_fn, value, state_file, manifest, lock_dir>>

\* gather_context: config = load_config(config_path), which raises what
\* Config.model_validate raises.
LoadConfigReturns ==
    /\ called.fn = "gather_context"
    /\ called.at = "load_config"
    /\ LET config_loaded == ModelValidate(called.data) IN
        IF config_loaded = ValidationError
        THEN /\ called' = [called EXCEPT !.at = "raised"]
             /\ value' = ValidationError
        ELSE /\ called' = [called EXCEPT !.at = "build_environments",
                                         !.config = config_loaded]
             /\ value' = value
    /\ UNCHANGED <<not_fn, state_file, manifest, lock_dir>>

\* gather_context: get_env_path(), build_environments and the Context.
BuildEnvironmentsReturns ==
    /\ called.fn = "gather_context"
    /\ called.at = "build_environments"
    /\ called' = [called EXCEPT !.at = "returned"]
    /\ value' = [kind |-> "Context",
                 config |-> called.config,
                 environments |->
                    {called.config.environments[i].id :
                        i \in DOMAIN called.config.environments}]
    /\ UNCHANGED <<not_fn, state_file, manifest, lock_dir>>

\* gather_context is called on a goose.yaml with up to MaxLen environments
\* and hooks, the ./.goose directory being there or not.
ConfigInit ==
    /\ called \in
        [fn : {"gather_context"},
         data : [environments : SeqsUpTo(RawEnvironments, MaxLen),
                 hooks : SeqsUpTo(RawHooks, MaxLen)],
         lock_files_path : BOOLEAN,
         config : {NoValue},
         at : {"mkdir"}]
    /\ value = NoValue
    /\ SchedulerInit([h \in Range(HookIds) |-> Unplanned], NoHook, 1)
    /\ RunIdle
    /\ MainIdle
    /\ CwdIdle
    /\ EnvIdle

ConfigNext ==
    \/ GatherContextMkdir
    \/ LoadConfigReturns
    \/ BuildEnvironmentsReturns

ConfigSpec == ConfigInit /\ [][ConfigNext]_vars

\* ----------------------------------------------- git/status.py, by itself

NotImplementedError == [kind |-> "NotImplementedError"]

ValueError == [kind |-> "ValueError"]

ReadFsCodes ==
    {".A", ".M", "MM", "MT", "TM", "TT", "AM", "AT", "RM", "RT", "CM", "CT",
     ".T", ".R", ".C"}

UseIndexCodes == {"M.", "T.", "A.", "R.", "C."}

SkipCodes == {".D", "MD", "TD", "AD", "RD", "CD", "D."}

\* What git status --porcelain=v2 knows about a path: an ordinary entry
\* (1), a renamed one (2, its origin path following), an unmerged one (u),
\* each in a submodule or not, or an untracked path (?).  DM stands for the
\* status codes that are in none of the three sets.
EntryKinds ==
    { [change |-> "1", status |-> ".M", submodule_state |-> "N..."],
      [change |-> "1", status |-> "M.", submodule_state |-> "N..."],
      [change |-> "1", status |-> ".D", submodule_state |-> "N..."],
      [change |-> "1", status |-> ".M", submodule_state |-> "S.M."],
      [change |-> "1", status |-> "DM", submodule_state |-> "N..."],
      [change |-> "2", status |-> "R.", submodule_state |-> "N..."],
      [change |-> "u", status |-> "UU", submodule_state |-> "N..."],
      [change |-> "u", status |-> "UU", submodule_state |-> "S.M."],
      [change |-> "?", status |-> "", submodule_state |-> ""] }

\* Paths, as str orders them.
StatusPathOrder == <<"a", "b", "c">>

StatusPaths == Range(StatusPathOrder)

Entry(entry_kind, path) ==
    [change |-> entry_kind.change, status |-> entry_kind.status,
     submodule_state |-> entry_kind.submodule_state, path |-> path]

\* The statuses of up to MaxLen paths, each path once.
WorkTreeStatuses ==
    {s \in SeqsUpTo({Entry(k, p) : k \in EntryKinds, p \in StatusPaths}, MaxLen) :
        \A i, j \in DOMAIN s : i # j => s[i].path # s[j].path}

\* git status --untracked-files=no --porcelain=v2 -z: untracked paths are
\* not printed.
GitStatusOutput(statuses) ==
    Restrict(statuses, {e \in Range(statuses) : e.change # "?"})

\* get_git_hash(path)
GetGitHash(path) == [hash_object |-> path]

ChangedFile(entry, worktree_object_name) ==
    [path |-> entry.path,
     head_object_name |-> "head",
     index_object_name |-> "index",
     worktree_object_name |-> worktree_object_name]

ChangedFiles(files) == [kind |-> "ChangedFiles", files |-> files]

\* A parser for which an unmerged entry is not supported.
RECURSIVE ChangedFilesUnmergedRaises(_)
ChangedFilesUnmergedRaises(output) ==
    IF output = <<>> THEN ChangedFiles(<<>>)
    ELSE LET entry == Head(output)
             later == ChangedFilesUnmergedRaises(Tail(output))
             yield(file) == IF later.kind # "ChangedFiles" THEN later
                            ELSE ChangedFiles(<<file>> \o later.files)
         IN  IF entry.change = "?" THEN ValueError
             ELSE IF entry.submodule_state # "N..." THEN NotImplementedError
             ELSE IF entry.change = "u" THEN NotImplementedError
             ELSE IF entry.status \in ReadFsCodes
             THEN yield(ChangedFile(entry, GetGitHash(entry.path)))
             ELSE IF entry.status \in UseIndexCodes
             THEN yield(ChangedFile(entry, "index"))
             ELSE IF entry.status \in SkipCodes THEN later
             ELSE NotImplementedError

\* _changed_files_from_output: the files it yields, or what it raises at the
\* first entry it cannot take.  An entry of fewer than nine fields (an
\* untracked path) fails to unpack.
RECURSIVE ChangedFilesFromOutput(_)
ChangedFilesFromOutput(output) ==
    IF output = <<>> THEN ChangedFiles(<<>>)
    ELSE LET entry == Head(output)
             later == ChangedFilesFromOutput(Tail(output))
             yield(file) == IF later.kind # "ChangedFiles" THEN later
                            ELSE ChangedFiles(<<file>> \o later.files)
         IN  IF entry.change = "?" THEN ValueError
             ELSE IF entry.submodule_state # "N..." THEN NotImplementedError
             ELSE IF entry.change = "u" THEN later
             ELSE IF entry.status \in ReadFsCodes
             THEN yield(ChangedFile(entry, GetGitHash(entry.path)))
             ELSE IF entry.status \in UseIndexCodes
             THEN yield(ChangedFile(entry, "index"))
             ELSE IF entry.status \in SkipCodes THEN later
             ELSE NotImplementedError

\* _parse_changed_files: with -z the output is one line, which is ignored
\* when it starts with #, ! or ?.
ParseChangedFiles(output) ==
    IF output = <<>> THEN ChangedFiles(<<>>)
    ELSE IF Head(output).change \in {"#", "!", "?"} THEN ChangedFiles(<<>>)
    ELSE ChangedFilesFromOutput(output)

\* sorted(changed_files): by path, each path being there once.
SortedChangedFiles(files) == SortByPath(StatusPathOrder, files)

\* get_git_status, the work tree being in the given status.
GetGitStatusParsed(statuses) ==
    LET changed_files == ParseChangedFiles(GitStatusOutput(statuses))
    IN  IF changed_files.kind # "ChangedFiles" THEN changed_files
        ELSE ChangedFiles(SortedChangedFiles(changed_files.files))

GetGitStatusReturns ==
    /\ called.fn = "get_git_status"
    /\ called.at = "call"
    /\ called' = [called EXCEPT !.at = "returned"]
    /\ value' = GetGitStatusParsed(called.statuses)
    /\ UNCHANGED <<not_fn, state_file, manifest, lock_dir>>

GitStatusInit ==
    /\ called \in [fn : {"get_git_status"}, statuses : WorkTreeStatuses,
                   at : {"call"}]
    /\ value = NoValue
    /\ SchedulerInit([h \in Range(HookIds) |-> Unplanned], NoHook, 1)
    /\ RunIdle
    /\ MainIdle
    /\ CwdIdle
    /\ EnvIdle

GitStatusNext == GetGitStatusReturns

GitStatusSpec == GitStatusInit /\ [][GitStatusNext]_vars

\* ------------------------------------ cd_to in concurrent preparations

\* lock_files_path, and the directory of an environment.
LockFilesPath == "repository/.goose"

EnvPath(env) == IF env = "e1" THEN "cache/e1" ELSE "cache/e2"

\* What is left alone while the preparations of the node environments run.
not_cwd == <<sched_vars, run_vars, main_vars, env_vars, fn_vars>>

\* The directory a backend function of node.py changes to: freeze to the
\* lock files directory, sync to the environment's.
CdPath(operation, env) ==
    IF operation = "freeze" THEN LockFilesPath ELSE EnvPath(env)

\* with cd_to(path): cd = os.getcwd(); os.chdir(path); then the subprocess
\* is awaited inside the with block.
CdToEnters(env) ==
    /\ node_task[env].at = "ready"
    /\ node_task' = [node_task EXCEPT
                        ![env].cd = cwd,
                        ![env].at = "awaiting"]
    /\ cwd' = CdPath(Head(node_task[env].todo), env)
    /\ UNCHANGED not_cwd

\* process.wait() returns and the with block is left: os.chdir(cd).  A
\* return code other than 0 then raises RuntimeError; otherwise the
\* preparation goes on to its next operation, or returns.
CdToExits(env) ==
    /\ node_task[env].at = "awaiting"
    /\ cwd' = node_task[env].cd
    /\ \E returncode \in {0, 1} :
        node_task' = [node_task EXCEPT
            ![env].todo = Tail(@),
            ![env].at = IF returncode # 0 THEN "RuntimeError"
                        ELSE IF Tail(node_task[env].todo) = <<>> THEN "returned"
                        ELSE "ready"]
    /\ UNCHANGED not_cwd

\* goose upgrade (every environment is frozen, then synced) or goose run
\* (synced) with two node environments, their preparations being tasks of
\* one event loop.
CwdInit ==
    /\ cwd = StartDirectory
    /\ \E to_upgrade \in BOOLEAN :
        node_task = [env \in Envs |->
            [todo |-> IF to_upgrade THEN <<"freeze", "sync">> ELSE <<"sync">>,
             at |-> "ready",
             cd |-> StartDirectory]]
    /\ SchedulerInit([h \in Range(HookIds) |-> Unplanned], NoHook, 1)
    /\ RunIdle
    /\ MainIdle
    /\ EnvIdle
    /\ FnIdle

CwdNext == \E env \in Envs : CdToEnters(env) \/ CdToExits(env)

CwdSpec == CwdInit /\ [][CwdNext]_vars

\* ------------------------------------------------------------------ claims

ReadOnly(unit) == hooks[unit.hook].read_only

TargetsOf(us) == UNION {unit.targets : unit \in us}

RemainingSet == Range(remaining_units)

ResultKeys == DOMAIN results

\* The positions of the events of one type about one unit.
EventsOf(type, unit) ==
    {i \in DOMAIN events : events[i].type = type /\ events[i].unit = unit}

LastEvent == events[Len(events)]

\* C1: whenever _schedule_max admits a unit while other units are running,
\* the unit's targets are disjoint from the targets of all running units, or
\* the unit and all running units belong to read_only hooks.
C1_AdmissionSafe ==
    [][\A unit \in RunningSet' \ RunningSet :
        RunningSet # {} =>
            \/ unit.targets \cap TargetsOf(RunningSet) = {}
            \/ ReadOnly(unit) /\ \A other \in RunningSet : ReadOnly(other)]_vars

\* A read_only unit was admitted beside a running unit that shares a file.
C1_Witness ==
    /\ yielded
    /\ pc = "schedule_max"
    /\ Len(running_units) >= 2
    /\ LastEvent.unit.targets
         \cap TargetsOf(RunningSet \ {LastEvent.unit}) # {}

\* C2: two distinct units that are running at the same time have disjoint
\* targets or both belong to read_only hooks.
C2_NoConflictRunning ==
    \A u, v \in RunningSet :
        u # v => \/ u.targets \cap v.targets = {}
                 \/ ReadOnly(u) /\ ReadOnly(v)

\* Units of two writing hooks run at the same time, on different files.
C2_Witness ==
    \E u, v \in RunningSet :
        /\ u.hook # v.hook
        /\ ~ReadOnly(u) /\ ~ReadOnly(v)
        /\ u.targets # {} /\ v.targets # {}
        /\ hooks[u.hook].files = hooks[v.hook].files

\* C3: the number of running units never exceeds max_running; with
\* max_running = 1 no two units ever run at the same time.
C3_Capacity ==
    /\ Len(running_units) <= max_running
    /\ Cardinality(RunningSet) = Len(running_units)
    /\ max_running = 1 => Cardinality(RunningSet) <= 1

\* One CPU: a unit runs and a unit that shares nothing with it has to wait.
C3_Witness ==
    /\ max_running = 1
    /\ pc = "asyncio_wait"
    /\ Len(running_units) = 1
    /\ \E unit \in RemainingSet : unit.targets \cap RunningFileSet = {}

\* C4: when until_complete has ended normally the stream holds, for every
\* planned unit, exactly one UnitScheduled and exactly one UnitFinished, the
\* first before the second; at no time does it hold more than one of either,
\* or a UnitFinished without an earlier UnitScheduled.
C4_OneScheduledOneFinished ==
    /\ \A i \in DOMAIN events : events[i].unit \in AllUnits
    /\ \A unit \in AllUnits :
        /\ Cardinality(EventsOf("UnitScheduled", unit)) <= 1
        /\ Cardinality(EventsOf("UnitFinished", unit)) <= 1
        /\ \A f \in EventsOf("UnitFinished", unit) :
            \E sch \in EventsOf("UnitScheduled", unit) : sch < f
        /\ pc = "done" =>
            /\ Cardinality(EventsOf("UnitScheduled", unit)) = 1
            /\ Cardinality(EventsOf("UnitFinished", unit)) = 1

\* A complete run of four units.
C4_Witness == pc = "done" /\ Cardinality(AllUnits) = 4 /\ Len(events) = 8

\* The states a consumer of until_complete can look at: before the run, while
\* it holds an event, and after the run.
Observable == pc \in {"start", "done"} \/ yielded

\* remaining, running and keys(results) together are the plan.
CoverPlan == RemainingSet \cup RunningSet \cup ResultKeys = AllUnits

\* C5 as stated: in every observable state remaining, running and
\* keys(results) are pairwise disjoint and their union is the plan.
C5_Original ==
    Observable =>
        /\ CoverPlan
        /\ RemainingSet \cap RunningSet = {}
        /\ RemainingSet \cap ResultKeys = {}
        /\ RunningSet \cap ResultKeys = {}

\* The units _prune_running has gone past in the pass it is in.
PassedInPass ==
    IF pc = "prune_running"
    THEN {running_units[i] : i \in 1..(prune_at - 1)}
    ELSE {}

\* C5 amended: in every observable state the union of remaining, running and
\* keys(results) is the plan and remaining is disjoint from the other two;
\* running and keys(results) are disjoint before the run, at a UnitScheduled
\* event and after the run, while at a UnitFinished event the units reported
\* by the harvest pass in progress, the event's unit among them, are in both.
C5_Amended ==
    Observable =>
        /\ CoverPlan
        /\ RemainingSet \cap RunningSet = {}
        /\ RemainingSet \cap ResultKeys = {}
        /\ RunningSet \cap ResultKeys \subseteq PassedInPass
        /\ pc = "prune_running" => LastEvent.unit \in RunningSet \cap ResultKeys
        /\ pc # "prune_running" => RunningSet \cap ResultKeys = {}

\* A UnitFinished event of a pass that reports two units.
C5_Witness ==
    /\ yielded
    /\ pc = "prune_running"
    /\ Cardinality(RunningSet \cap ResultKeys) = 2
    /\ RemainingSet # {}

\* The run is complete: nothing remains, nothing runs and every planned unit
\* has a RunResult.
Complete ==
    /\ pc = "done"
    /\ remaining_units = <<>>
    /\ running_units = <<>>
    /\ ResultKeys = AllUnits
    /\ \A unit \in AllUnits : results[unit] \in RunResult

\* C6: if every admitted unit's run returns, until_complete terminates with
\* remaining and running empty and a RunResult for every planned unit; every
\* unit leaves remaining on the way, so none starves.
C6_Terminates == <>Complete

\* A complete run in which a unit had to wait for another one to finish.
C6_Witness ==
    /\ Complete
    /\ \E i, j \in DOMAIN events :
        /\ i < j
        /\ events[i].type = "UnitFinished"
        /\ events[j].type = "UnitScheduled"

\* Every planned hook is read_only.
AllReadOnly == \A hook \in DOMAIN units : hooks[hook].read_only

\* C7: when every planned hook is read_only, every pass of _schedule_max ends
\* with remaining empty or with exactly max_running units running.
C7_ReadOnlyFillsCapacity ==
    [][AllReadOnly /\ ScheduleMaxReturn =>
        \/ remaining_units' = <<>>
        \/ Len(running_units') = max_running]_vars

\* A pass of read-only units has filled the capacity with units that share a
\* file, and a unit remains.
C7_Witness ==
    /\ AllReadOnly
    /\ pc = "asyncio_wait"
    /\ loop = 1
    /\ remaining_units # <<>>
    /\ Len(running_units) = max_running
    /\ \E u, v \in RunningSet : u # v /\ u.targets \cap v.targets # {}

\* Two writing, parameterized hooks A and B that both target x.py and y.py,
\* planned on four CPUs, so that max_running = 4.
C8_Scenario ==
    /\ cpu_count = 4
    /\ selected_hook = NoHook
    /\ \A hook \in {"A", "B"} :
        /\ hooks[hook].parameterize
        /\ ~hooks[hook].read_only
        /\ Range(hooks[hook].files) = {"x.py", "y.py"}

\* No two UnitScheduled events without a UnitFinished between them.
ScheduledFinishedAlternate ==
    \A i \in DOMAIN events :
        i < Len(events) /\ events[i].type = "UnitScheduled" =>
            events[i + 1].type = "UnitFinished"

\* C8 as stated: in the scenario at most one unit is running at any time and
\* the stream alternates Scheduled, Finished.
C8_Original ==
    C8_Scenario => Len(running_units) <= 1 /\ ScheduledFinishedAlternate

\* C8 amended: in the scenario each hook is planned as one unit per file; at
\* most two units are running at any time, never two on the same file; the
\* stream starts with the UnitScheduled events of A's two units, and the unit
\* of B for a file is scheduled only after UnitFinished of the unit of A for
\* that file.
C8_Amended ==
    C8_Scenario =>
        /\ \A hook \in {"A", "B"} :
            /\ Len(units[hook]) = 2
            /\ \A i \in 1..2 : Cardinality(units[hook][i].targets) = 1
        /\ Len(running_units) <= 2
        /\ \A u, v \in RunningSet : u # v => u.targets \cap v.targets = {}
        /\ \A i \in DOMAIN events : i <= 2 =>
            events[i].type = "UnitScheduled" /\ events[i].unit.hook = "A"
        /\ \A i \in DOMAIN events :
            events[i].type = "UnitScheduled" /\ events[i].unit.hook = "B" =>
                \E j \in 1..(i - 1) :
                    /\ events[j].type = "UnitFinished"
                    /\ events[j].unit.hook = "A"
                    /\ events[j].unit.targets = events[i].unit.targets

\* In the scenario a unit of A and a unit of B run at the same time.
C8_Witness ==
    /\ C8_Scenario
    /\ \E u, v \in RunningSet : u.hook = "A" /\ v.hook = "B"

\* Two read_only hooks A and B with a target file in common, both planned,
\* and max_running >= 2.
C9_Scenario ==
    /\ max_running >= 2
    /\ selected_hook = NoHook
    /\ \A hook \in {"A", "B"} :
        hooks[hook].parameterize /\ hooks[hook].read_only
    /\ Range(hooks["A"].files) \cap Range(hooks["B"].files) # {}

\* A UnitScheduled of a unit of the hook is among the first n events.
ScheduledWithin(hook, n) ==
    \E i \in 1..n :
        events[i].type = "UnitScheduled" /\ events[i].unit.hook = hook

\* Every UnitFinished is preceded by a UnitScheduled of A and one of B.
BothScheduledBeforeFinished ==
    \A i \in DOMAIN events :
        events[i].type = "UnitFinished" =>
            ScheduledWithin("A", i - 1) /\ ScheduledWithin("B", i - 1)

\* C9 as stated: in the scenario a UnitScheduled of A and one of B both come
\* before the first UnitFinished.
C9_Original == C9_Scenario => BothScheduledBeforeFinished

\* C9 amended: in the scenario, when A is planned as fewer than max_running
\* units a UnitScheduled of A and one of B both come before the first
\* UnitFinished; when the units of A fill max_running, no unit of B is
\* scheduled before the first UnitFinished.
C9_Amended ==
    C9_Scenario =>
        /\ Len(units["A"]) < max_running => BothScheduledBeforeFinished
        /\ Len(units["A"]) >= max_running =>
            \A i \in DOMAIN events :
                events[i].type = "UnitScheduled" /\ events[i].unit.hook = "B"
                    => \E j \in 1..(i - 1) : events[j].type = "UnitFinished"

\* In the scenario, units of A and B that share a file run together and the
\* first UnitFinished has been yielded.
C9_Witness ==
    /\ C9_Scenario
    /\ Len(units["A"]) < max_running
    /\ \E i \in DOMAIN events : events[i].type = "UnitFinished"
    /\ \E i, j \in DOMAIN events :
        /\ events[i].type = "UnitScheduled" /\ events[i].unit.hook = "A"
        /\ events[j].type = "UnitScheduled" /\ events[j].unit.hook = "B"
        /\ events[i].unit.targets \cap events[j].unit.targets # {}

\* C10: state() has one entry per planned hook and, under it, one per unit
\* of the hook: null iff the unit is in remaining, its task iff it is running
\* and its UnitFinished has not been yielded, its RunResult iff its
\* UnitFinished has been yielded.
C10_StateSnapshot ==
    /\ DOMAIN State = Range(SelectedHookIds(selected_hook))
    /\ \A hook \in DOMAIN State :
        /\ DOMAIN State[hook] = {unit \in AllUnits : unit.hook = hook}
        /\ \A unit \in DOMAIN State[hook] :
            LET status == State[hook][unit]
                finished == EventsOf("UnitFinished", unit)
            IN  /\ status = Null <=> unit \in RemainingSet
                /\ status = TaskHandle(unit) <=>
                    unit \in RunningSet /\ finished = {}
                /\ status \notin {Null, TaskHandle(unit)} <=> finished # {}
                /\ \A i \in finished : status = Result(events[i].result)

\* state() is asked while a harvested unit is still in _running_units.
C10_Witness ==
    /\ yielded
    /\ pc = "prune_running"
    /\ LastEvent.unit \in RunningSet
    /\ State[LastEvent.unit.hook][LastEvent.unit] = Result(LastEvent.result)

\* The command of a running unit has failed: its task returned error.
CommandFailed == \E unit \in DOMAIN task : task[unit] = "error"

\* Every planned unit has its UnitScheduled and its UnitFinished in the
\* stream, and the UnitFinished carries the result kept for the unit.
AllReported ==
    \A unit \in AllUnits :
        /\ EventsOf("UnitScheduled", unit) # {}
        /\ \E f \in EventsOf("UnitFinished", unit) :
            events[f].result = results[unit]

\* C11: a unit whose command fails is recorded as RunResult.error for that
\* unit only: the result stored for a unit is the one its own task returned
\* and the results of the other units are left alone; the stream goes on
\* and every planned unit is scheduled and finishes with its own result.
C11_ErrorIsLocal ==
    /\ [][\A unit \in ResultKeys' \ ResultKeys :
            /\ results'[unit] = task[unit]
            /\ \A other \in ResultKeys : results'[other] = results[other]]_vars
    /\ CommandFailed ~> (Complete /\ AllReported)

\* The run is complete; the first unit finished with error before another
\* unit was scheduled, and that unit finished ok.
C11_Witness ==
    /\ pc = "done"
    /\ \E f, sch, g \in DOMAIN events :
        /\ f < sch /\ sch < g
        /\ events[f].type = "UnitFinished" /\ events[f].result = "error"
        /\ events[sch].type = "UnitScheduled"
        /\ events[g].type = "UnitFinished" /\ events[g].result = "ok"
        /\ events[g].unit = events[sch].unit

\* The task of the unit was cancelled (or ended with another exception):
\* task.result() raises for it.
Cancelled(unit) == unit \in DOMAIN task /\ task[unit] = "raised"

\* until_complete has ended, by returning or with an exception.
StreamEnded == pc \in {"done", "Exception", "ValueError"}

\* C12 as stated: when the task of a running unit is cancelled the other
\* units are still scheduled, harvested and reported with their own results
\* and the cancelled unit is reported as cancelled: the stream does not end
\* before every planned unit has its UnitFinished.
C12_Original ==
    StreamEnded =>
        \A unit \in AllUnits :
            \E f \in EventsOf("UnitFinished", unit) :
                IF Cancelled(unit)
                THEN events[f].result = "cancelled"
                ELSE events[f].result \in RunResult

\* C13: for a unit of a hook that is not read_only, Environment.run takes
\* the git status of the unit's targets before the backend runs (the work
\* tree changes only while the backend runs) and returns error if the
\* backend returned error, otherwise modified if the status after the run
\* differs from the one before, otherwise ok; for a unit of a read_only hook
\* it returns the backend's result and never modified.  This is the result
\* the scheduler's tasks return.
C13_RunResult ==
    [][/\ run_pc = "start" /\ run_pc' # "start" /\ ~ReadOnly(run_unit)
            => status_prior' = GetGitStatus(run_unit.targets)
       /\ work_tree' # work_tree => run_pc = "backend" /\ run_pc' = "backend"
       /\ run_pc # "returned" /\ run_pc' = "returned" =>
            /\ run_result' =
                IF ReadOnly(run_unit) THEN coroutine_result'
                ELSE IF coroutine_result' = "error" THEN "error"
                ELSE IF GetGitStatus(run_unit.targets)' # status_prior
                     THEN "modified"
                ELSE "ok"
            /\ ReadOnly(run_unit) => run_result' # "modified"
            /\ run_result' =
                EnvironmentRun(run_unit, coroutine_result',
                               GetGitStatus(run_unit.targets)' # status_prior)
      ]_vars

\* The backend returned ok after the command edited a target that was
\* clean before the run, and Environment.run returned modified.
C13_Witness ==
    /\ run_pc = "returned"
    /\ ~ReadOnly(run_unit)
    /\ coroutine_result = "ok"
    /\ run_result = "modified"
    /\ status_prior = {}
    /\ \E path \in run_unit.targets : work_tree[path] = "edited"

\* until_complete was drained and print_summary has run.
SummaryPrinted == main_pc = "exit" /\ pc = "done"

\* The overall outcome that print_summary reports on the console.
OverallOutcome ==
    IF "Some hooks errored." \in Range(console) THEN "error"
    ELSE IF "Some hooks made changes." \in Range(console) THEN "modified"
    ELSE IF "All ok!" \in Range(console) THEN "success"
    ELSE "none"

\* C14: after until_complete has been drained the overall outcome is error
\* if the result of any unit is error, otherwise modified if the result of
\* any unit is modified, otherwise success; the exit status is 0 exactly
\* when the result of every unit is ok.
C14_Outcome ==
    SummaryPrinted =>
        /\ ResultKeys = AllUnits
        /\ OverallOutcome =
            IF \E unit \in AllUnits : results[unit] = "error" THEN "error"
            ELSE IF \E unit \in AllUnits : results[unit] = "modified"
                 THEN "modified"
            ELSE "success"
        /\ exit_code \in {0, 1}
        /\ exit_code = 0 <=> \A unit \in AllUnits : results[unit] = "ok"

\* A run in which units were modified and none errored ends with status 1.
C14_Witness ==
    /\ SummaryPrinted
    /\ \E unit \in AllUnits : results[unit] = "modified"
    /\ \E unit \in AllUnits : results[unit] = "ok"
    /\ \A unit \in AllUnits : results[unit] # "error"
    /\ exit_code = 1

\* No UnitScheduled was yielded, no task of a unit was made and
\* until_complete was not entered.
NothingScheduled == events = <<>> /\ task = <<>> /\ pc = "start"

\* C15: no unit is scheduled before prepare_environment has returned for
\* every environment; if the preparation of an environment fails, with
\* NeedsFreeze or otherwise, no unit is ever scheduled and the command, once
\* _run_goose has looked at the prepare tasks, has ended with exit status 1.
C15_PreparedBeforeScheduled ==
    /\ ~NothingScheduled => \A env \in Envs : prepare_task[env] = "returned"
    /\ (\E env \in Envs : prepare_task[env] \in {"NeedsFreeze", "raised"}) =>
        /\ NothingScheduled
        /\ main_pc \in {"asyncio_wait", "exit", "Exception"}
        /\ main_pc # "asyncio_wait" => exit_code = 1

\* The preparation of one environment needed a freeze while the other was
\* still being prepared: the command has exited and nothing was scheduled.
C15_Witness ==
    /\ main_pc = "exit"
    /\ exit_code = 1
    /\ NothingScheduled
    /\ \E env \in Envs : prepare_task[env] = "NeedsFreeze"
    /\ \E env \in Envs : prepare_task[env] = "pending"

\* The lifecycle operations, in the order of prepare_environment's code.
Lifecycle == <<"teardown", "bootstrap", "freeze", "sync">>

IsLifecycle(entry) == entry.op \in Range(Lifecycle)

\* The starts and ends of the lifecycle operations invoked so far.
LifecycleOps == SelectSeq(ops, IsLifecycle)

Rank(op) == CHOOSE i \in DOMAIN Lifecycle : Lifecycle[i] = op

\* The lifecycle operations that have been started, in order.
Started ==
    LET starts == SelectSeq(LifecycleOps, LAMBDA e : e.phase = "start")
    IN  [i \in DOMAIN starts |-> starts[i].op]

\* C16: within one call of prepare_environment the lifecycle operations are
\* invoked in the order teardown, bootstrap, freeze, sync, each at most
\* once; an operation starts only after the one before it has ended, so no
\* two overlap.
C16_Sequential ==
    /\ \A i \in DOMAIN LifecycleOps :
        IF i % 2 = 1 THEN LifecycleOps[i].phase = "start"
        ELSE /\ LifecycleOps[i].phase = "end"
             /\ LifecycleOps[i].op = LifecycleOps[i - 1].op
    /\ \A i, j \in DOMAIN Started :
        i < j => Rank(Started[i]) < Rank(Started[j])

\* A call that ran all four operations and returned.
C16_Witness ==
    /\ env_pc = "returned"
    /\ Started = Lifecycle
    /\ Len(LifecycleOps) = 8

\* prepare_environment has returned or raised.
Ended == env_pc \in {"returned", "NeedsFreeze", "RuntimeError", "Exception"}

\* The call has ended because the backend's bootstrap, freeze or sync raised.
BackendRaised ==
    /\ env_pc = "Exception"
    /\ ops # <<>>
    /\ ops[Len(ops)].phase = "start"
    /\ ops[Len(ops)].op = "sync" => manifest # NoManifest

\* The call ran the operations of `started`, in that order, and returned
\* with the environment synced to the manifest on disk.
EndsSynced(started) ==
    /\ env_pc = "returned"
    /\ Started = started
    /\ state.kind = "synced"
    /\ state.ecosystem = env_config.ecosystem
    /\ ReadState = state
    /\ manifest # NoManifest
    /\ CheckLockFiles(state.checksum) = "matching"

\* The call ran the operations of `started`, in that order, and raised
\* NeedsFreeze, having neither frozen nor synced.
EndsNeedsFreeze(started) ==
    /\ env_pc = "NeedsFreeze"
    /\ Started = started
    /\ ReadState = state

\* The call started from state Uninitialized with no manifest on disk.
Fresh == on_entry.state = Uninitialized /\ on_entry.manifest = NoManifest

\* C17, as stated: from Uninitialized with no manifest and without upgrade,
\* a call in which no backend call raises performs bootstrap, freeze, sync
\* and ends Synced, with a manifest on disk that check_lock_files finds
\* matching.
C17_Original ==
    Fresh /\ ~upgrade /\ Ended /\ ~BackendRaised =>
        EndsSynced(<<"bootstrap", "freeze", "sync">>)

\* C17, amended: from Uninitialized with no manifest, a call in which no
\* backend call raises ends, without upgrade, after bootstrap alone by
\* raising NeedsFreeze, in state Initial(bootstrapped) and still without a
\* manifest; with upgrade it performs bootstrap, freeze, sync and ends
\* Synced, with a manifest on disk that check_lock_files finds matching.
C17_Amended ==
    Fresh /\ Ended /\ ~BackendRaised =>
        IF upgrade
        THEN EndsSynced(<<"bootstrap", "freeze", "sync">>)
        ELSE /\ EndsNeedsFreeze(<<"bootstrap">>)
             /\ state = InitialState("bootstrapped", env_config.ecosystem)
             /\ manifest = NoManifest

\* A call without upgrade that bootstrapped a fresh environment and raised
\* NeedsFreeze.
C17_Witness ==
    /\ Fresh
    /\ ~upgrade
    /\ EndsNeedsFreeze(<<"bootstrap">>)
    /\ manifest = NoManifest
    /\ state = InitialState("bootstrapped", env_config.ecosystem)

\* The call started from a persisted state of another ecosystem than the
\* configured one.
EcosystemChanged ==
    /\ on_entry.state # Uninitialized
    /\ on_entry.state.ecosystem # env_config.ecosystem

\* The operation that has just ended, if the last entry of the log is an end.
JustEnded(op) == ops # <<>> /\ ops[Len(ops)] = End(op)

\* teardown leaves no sandbox and state Uninitialized; the bootstrap after
\* it is of the configured ecosystem.
TornDownThenBootstrapped ==
    /\ JustEnded("teardown") =>
        /\ state = Uninitialized
        /\ state_file = NoFile
        /\ ~env_path
    /\ JustEnded("bootstrap") =>
        /\ Started = <<"teardown", "bootstrap">>
        /\ state = InitialState("bootstrapped", env_config.ecosystem)
        /\ env_path

\* C18, as stated: when the persisted state is of another ecosystem than
\* the configured one, the call removes the sandbox (state Uninitialized),
\* bootstraps the configured ecosystem, freezes and syncs, and ends Synced
\* with the configured ecosystem (no backend call raising).
C18_Original ==
    EcosystemChanged =>
        /\ TornDownThenBootstrapped
        /\ Ended /\ ~BackendRaised =>
            EndsSynced(<<"teardown", "bootstrap", "freeze", "sync">>)

\* C18, amended: when the persisted state is of another ecosystem than the
\* configured one, the call removes the sandbox (state Uninitialized) and
\* bootstraps the configured ecosystem.  With upgrade it then freezes and
\* syncs and ends Synced with the configured ecosystem.  Without upgrade it
\* never freezes: it raises NeedsFreeze in state Initial(bootstrapped) when
\* check_should_freeze holds, and otherwise syncs from the manifest on disk
\* and ends Synced with the configured ecosystem.
C18_Amended ==
    EcosystemChanged =>
        /\ TornDownThenBootstrapped
        /\ Ended /\ ~BackendRaised =>
            IF upgrade
            THEN EndsSynced(<<"teardown", "bootstrap", "freeze", "sync">>)
            ELSE IF CheckShouldFreeze
            THEN /\ EndsNeedsFreeze(<<"teardown", "bootstrap">>)
                 /\ state = InitialState("bootstrapped", env_config.ecosystem)
            ELSE EndsSynced(<<"teardown", "bootstrap", "sync">>)

\* A call without upgrade that tore down the sandbox of the other
\* ecosystem, bootstrapped, and synced from the manifest on disk without
\* freezing.
C18_Witness ==
    /\ EcosystemChanged
    /\ ~upgrade
    /\ EndsSynced(<<"teardown", "bootstrap", "sync">>)

\* When the call started the state was Synced, the manifest on disk was of
\* the configuration, and a lock file the manifest lists was not on disk.
LockFileDeleted ==
    /\ on_entry.state.kind = "synced"
    /\ on_entry.manifest # NoManifest
    /\ on_entry.manifest.source_ecosystem = env_config.ecosystem
    /\ Range(on_entry.manifest.source_dependencies)
            = Range(env_config.dependencies)
    /\ \E i \in DOMAIN on_entry.manifest.lock_files :
            on_entry.lock_dir[on_entry.manifest.lock_files[i].path] = Absent

HasStarted(op) == op \in Range(Started)

\* C19, as stated: with state Synced, a manifest of the configuration and a
\* lock file of the manifest deleted, the call (upgrade not requested)
\* observes missing_lock_file, runs sync and not freeze, does not raise
\* NeedsFreeze, and ends Synced.
C19_Original ==
    LockFileDeleted /\ ~upgrade /\ Ended /\ ~BackendRaised =>
        /\ env_pc = "returned"
        /\ Consulted \in Range(ops)
        /\ HasStarted("sync")
        /\ ~HasStarted("freeze")
        /\ state.kind = "synced"

\* C19, amended: with state Synced, a manifest of the configuration and a
\* lock file of the manifest deleted, the call without upgrade observes
\* missing_lock_file in check_should_freeze and raises NeedsFreeze, running
\* neither freeze nor sync; when the state's ecosystem is the configured
\* one it runs no operation at all and the state stays Synced.  With
\* upgrade the call freezes, then syncs, and ends Synced.
C19_Amended ==
    LockFileDeleted /\ Ended /\ ~BackendRaised =>
        IF upgrade
        THEN \E started \in {<<"freeze", "sync">>, Lifecycle} :
                EndsSynced(started)
        ELSE /\ env_pc = "NeedsFreeze"
             /\ Consulted \in Range(ops)
             /\ CheckLockFiles(NoChecksum) = "missing_lock_file"
             /\ ~HasStarted("sync")
             /\ ~HasStarted("freeze")
             /\ Started = <<>> => state = on_entry.state /\ ReadState = state

\* A call without upgrade on a Synced environment whose lock file was
\* deleted: NeedsFreeze is raised and no operation has run.
C19_Witness ==
    /\ ~upgrade
    /\ env_pc = "NeedsFreeze"
    /\ Started = <<>>
    /\ state.kind = "synced"
    /\ LockFileDeleted

\* How many times the operation has been started.
TimesStarted(op) == Len(SelectSeq(Started, LAMBDA o : o = op))

\* prepare_environment is past its upgrade test: it stands at a later
\* point, or has ended otherwise than by the backend's bootstrap raising.
PastUpgradeTest ==
    \/ env_pc \in {"freeze", "check_should_sync", "sync", "returned",
                    "NeedsFreeze", "RuntimeError"}
    \/ env_pc = "Exception" /\ ops[Len(ops)] # Start("bootstrap")

\* C20: with upgrade requested, the call starts freeze once it reaches its
\* upgrade test, whatever the state and the lock files are, and never more
\* than once; check_lock_files is not called at any point of the call;
\* when freeze has returned, check_should_sync is true, and a call in which
\* no backend operation raises returns after exactly one freeze and one
\* sync, in state Synced.
C20_UpgradeFreezes ==
    upgrade =>
        /\ Consulted \notin Range(ops)
        /\ TimesStarted("freeze") = IF PastUpgradeTest THEN 1 ELSE 0
        /\ env_pc = "check_should_sync" => CheckShouldSync = "True"
        /\ Ended /\ ~BackendRaised =>
            /\ env_pc = "returned"
            /\ TimesStarted("sync") = 1
            /\ JustEnded("sync")
            /\ state.kind = "synced"
            /\ state.checksum = manifest.checksum
            /\ ReadState = state

\* freeze has been started on a Synced environment for which
\* check_lock_files would report matching.
C20_Witness ==
    /\ upgrade
    /\ env_pc = "freeze"
    /\ state.kind = "synced"
    /\ CheckLockFiles(state.checksum) = "matching"

\* What check_lock_files reports to check_should_freeze.
ReportedToFreeze == CheckLockFiles(NoChecksum)

NeedingFreeze ==
    {"missing_lock_file", "manifest_lock_file_mismatch",
     "config_manifest_mismatch"}

\* The state the bootstrap step leaves: that of bootstrap when it ran, and
\* otherwise the one the call started from.
AfterBootstrapStep ==
    IF HasStarted("bootstrap")
    THEN InitialState("bootstrapped", env_config.ecosystem)
    ELSE on_entry.state

\* C21: without upgrade, once prepare_environment is past its freeze test
\* with check_lock_files(state_checksum = None) reporting
\* missing_lock_file, manifest_lock_file_mismatch or
\* config_manifest_mismatch, it has raised NeedsFreeze; and when it has
\* raised NeedsFreeze that report is one of the three, neither freeze nor
\* sync has been started, and the state, in memory and on disk, is the one
\* the bootstrap step left.
C21_NeedsFreeze ==
    ~upgrade =>
        /\ PastUpgradeTest /\ ReportedToFreeze \in NeedingFreeze
            => env_pc = "NeedsFreeze"
        /\ env_pc = "NeedsFreeze" =>
            /\ ReportedToFreeze \in NeedingFreeze
            /\ ~HasStarted("freeze")
            /\ ~HasStarted("sync")
            /\ state = AfterBootstrapStep
            /\ ReadState = state
            /\ manifest = on_entry.manifest
            /\ lock_dir = on_entry.lock_dir

\* NeedsFreeze raised on a bootstrapped environment whose manifest is of
\* another configuration; no operation has run.
C21_Witness ==
    /\ ~upgrade
    /\ env_pc = "NeedsFreeze"
    /\ manifest # NoManifest
    /\ ReportedToFreeze = "config_manifest_mismatch"
    /\ Started = <<>>
    /\ state = on_entry.state

\* A manifest is on disk and is of the configured ecosystem and set of
\* dependencies.
ManifestOfConfig ==
    /\ manifest # NoManifest
    /\ manifest.source_ecosystem = env_config.ecosystem
    /\ Range(manifest.source_dependencies) = Range(env_config.dependencies)

\* C22: prepare_environment stands at its sync test, or has started sync,
\* only with a manifest on disk that is of the configured ecosystem and
\* dependencies; check_should_sync never raises RuntimeError, and the call
\* ends with another exception only when a backend operation raised, never
\* because sync found no manifest to read.
C22_SyncHasManifest ==
    /\ env_pc \in {"check_should_sync", "sync"} \/ HasStarted("sync")
        => ManifestOfConfig
    /\ env_pc = "check_should_sync" => CheckShouldSync # "RuntimeError"
    /\ env_pc # "RuntimeError"
    /\ env_pc = "Exception" => BackendRaised

\* sync started without upgrade on a Synced environment whose checksum is
\* not the manifest's.
C22_Witness ==
    /\ ~upgrade
    /\ env_pc = "sync"
    /\ state.kind = "synced"
    /\ CheckLockFiles(state.checksum) = "state_manifest_mismatch"
    /\ ManifestOfConfig

\* The points of prepare_environment at which no backend operation is
\* under way and nothing has been raised.
BetweenOperations ==
    {"check_should_teardown", "check_should_bootstrap", "upgrade",
     "check_should_sync", "returned"}

\* C23: a call of prepare_environment without upgrade that follows a call
\* that returned, on the same configuration and lock files, starts no
\* teardown, bootstrap, freeze or sync, raises nothing, and leaves the
\* state, in memory and on disk, the Synced state with the checksum it
\* found.
C23_SecondCallIdle ==
    calls > 1 /\ ~upgrade =>
        /\ LifecycleOps = <<>>
        /\ env_pc \in BetweenOperations
        /\ state.kind = "synced"
        /\ state = on_entry.state
        /\ ReadState = state
        /\ state.checksum = manifest.checksum
        /\ manifest = on_entry.manifest
        /\ lock_dir = on_entry.lock_dir

\* The second call, without upgrade, has returned having consulted
\* check_lock_files for both of its tests.
C23_Witness ==
    /\ calls = 2
    /\ ~upgrade
    /\ env_pc = "returned"
    /\ ops = <<Consulted, Consulted>>
    /\ state.kind = "synced"

\* The lock files the manifest lists.
Listed == {manifest.lock_files[i] : i \in DOMAIN manifest.lock_files}

\* A listed lock file is on disk with another content than the manifest
\* recorded.
Tampered(lock_file) ==
    /\ lock_dir[lock_file.path] # Absent
    /\ GetChecksum(lock_dir[lock_file.path]) # lock_file.checksum

\* The decision table of check_lock_files, first rule that applies; the
\* state_checksum is the argument as it was passed, None included.
DecisionTable(state_checksum) ==
    IF manifest = NoManifest THEN "config_manifest_mismatch"
    ELSE IF manifest.source_ecosystem # env_config.ecosystem
         THEN "config_manifest_mismatch"
    ELSE IF Range(manifest.source_dependencies)
                # Range(env_config.dependencies)
         THEN "config_manifest_mismatch"
    ELSE IF \E lock_file \in Listed : lock_dir[lock_file.path] = Absent
         THEN "missing_lock_file"
    ELSE IF \E lock_file \in Listed : Tampered(lock_file)
         THEN "manifest_lock_file_mismatch"
    ELSE IF state_checksum # manifest.checksum THEN "state_manifest_mismatch"
    ELSE "matching"

\* C24, as stated: check_lock_files returns what the decision table gives
\* for the manifest, the lock files, the configuration and the
\* state_checksum it was called with.
C24_Original ==
    called.fn = "check_lock_files" =>
        value = DecisionTable(called.state_checksum)

\* C25, as stated: when the manifest is of the configuration and every
\* listed lock file is on disk, but the content of some listed lock file
\* has another checksum than the manifest recorded for it, check_lock_files
\* returns manifest_lock_file_mismatch.
C25_Original ==
    /\ called.fn = "check_lock_files"
    /\ ManifestOfConfig
    /\ \A lock_file \in Listed : lock_dir[lock_file.path] # Absent
    /\ \E lock_file \in Listed : Tampered(lock_file)
    => value = "manifest_lock_file_mismatch"

\* C26, as stated: called with state_checksum = None on a manifest that is
\* of the configuration and whose lock files are all on disk with the
\* content the manifest recorded, check_lock_files returns matching.
C26_Original ==
    /\ called = [fn |-> "check_lock_files", state_checksum |-> NoChecksum]
    /\ ManifestOfConfig
    /\ \A lock_file \in Listed :
        /\ lock_dir[lock_file.path] # Absent
        /\ ~Tampered(lock_file)
    => value = "matching"

\* The sequence has its elements in the order of order, none twice.
StrictlyAlong(order, seq) ==
    \A i, j \in DOMAIN seq :
        i < j => \E a, b \in DOMAIN order :
                    a < b /\ order[a] = seq[i] /\ order[b] = seq[j]

\* The orders in which the elements of a sequence can be passed.
Reorderings(seq) ==
    {[i \in DOMAIN seq |-> seq[p[i]]] :
        p \in {q \in [DOMAIN seq -> DOMAIN seq] :
                    \A i, j \in DOMAIN seq : i # j => q[i] # q[j]}}

IsManifest(v) == v.kind = "manifest"

\* C27: a manifest that build_manifest returns is left as it is by the
\* validation of LockManifest; its source_dependencies and the paths of its
\* lock_files are strictly sorted and not empty; its checksum is the one
\* accumulated over its lock files in that order; and build_manifest
\* returns the same manifest for every order of the dependencies and of
\* the paths passed.  The validation rejects every manifest whose checksum
\* is not the one accumulated over its lock files.
C27_BuiltManifestValid ==
    /\ called.fn = "build_manifest" /\ IsManifest(value) =>
        /\ Validate(value) = value
        /\ StrictlyAlong(Dependencies, value.source_dependencies)
        /\ StrictlyAlong(PathOrder,
                [i \in DOMAIN value.lock_files |-> value.lock_files[i].path])
        /\ value.source_dependencies # <<>>
        /\ value.lock_files # <<>>
        /\ Range(value.source_dependencies)
                = Range(called.source_dependencies)
        /\ Range(value.lock_files)
                = {ReadLockFile(path) : path \in Range(called.lock_files)}
        /\ value.checksum = GetAccumulatedChecksum(value.lock_files)
        /\ \A dependencies \in Reorderings(called.source_dependencies),
              lock_paths \in Reorderings(called.lock_files) :
                BuildManifest(called.source_ecosystem, dependencies,
                              lock_paths) = value
    /\ called.fn = "LockManifest" =>
        /\ called.manifest.checksum
                # GetAccumulatedChecksum(called.manifest.lock_files)
            => value = ValidationError
        /\ value \in {called.manifest, ValidationError}

\* build_manifest has returned a manifest for two dependencies and two
\* lock file paths that were both passed in descending order.
C27_Witness ==
    /\ called.fn = "build_manifest"
    /\ called.source_dependencies = <<"d2", "d1">>
    /\ called.lock_files = <<"package.json", "package-lock.json">>
    /\ IsManifest(value)

\* C28: read_state returns Uninitialized exactly when goose-state.json is
\* not there; what write_state writes for a state, read_state reads back as
\* that state; and whenever no lifecycle operation is under way, read_state
\* on the environment directory gives the state the environment holds in
\* memory.
C28_StateRoundTrip ==
    /\ ReadState = Uninitialized <=> state_file = NoFile
    /\ \A s \in PersistedStates : ModelValidateJson(WriteState(s)) = s
    /\ env_pc \notin Range(Lifecycle) => ReadState = state

\* The state that sync wrote in one call has been read back by read_state
\* for the next call.
C28_Witness ==
    /\ calls = 2
    /\ env_pc = "check_should_teardown"
    /\ state.kind = "synced"
    /\ state = ReadState
    /\ state_file = WriteState(state)

\* C29, as stated: a read_state that follows a write_state during which
\* the process was killed returns Uninitialized, or the complete state that
\* was in the file before, or the one that was being written; it does not
\* fail.
C29_Original ==
    /\ called.fn = "read_state"
    /\ called.after.fn = "write_state"
    /\ called.after.at = "killed"
    => \/ value = Uninitialized
       \/ value = called.after.state
       \/ /\ called.after.before # NoFile
          /\ value = ModelValidateJson(called.after.before)

\* C30: hook_as_executable_units returns, for a hook that is not
\* parameterized, one unit with id 0 and no targets; for a parameterized
\* hook with no target left by its filters, no unit; and otherwise units
\* with ids 0..k-1 whose target sets are not empty, pairwise disjoint, of at
\* most batch_size = ceil(n / (os.cpu_count() or 2)) paths each, and
\* together the n paths of filter_hook_targets.  A unit has no targets iff
\* its hook is not parameterized.
C30_UnitsPartition ==
    called.fn = "hook_as_executable_units" /\ called.at = "returned" =>
        LET hook == called.hook
            filtered == Range(FilterHookTargets(hook))
            batch_size == Ceil(Cardinality(filtered),
                               CpuCountOr2(called.cpu_count))
            ids == DOMAIN value
        IN  /\ ~hook.parameterize => value = <<ExecutableUnit(0, "A", {})>>
            /\ hook.parameterize /\ filtered = {} => value = <<>>
            /\ \A i \in ids :
                /\ value[i].id = i - 1
                /\ value[i].hook = "A"
                /\ value[i].targets = {} <=> ~hook.parameterize
                /\ Cardinality(value[i].targets) <= batch_size
                /\ \A j \in ids :
                    i # j => value[i].targets \cap value[j].targets = {}
            /\ UNION {value[i].targets : i \in ids} = filtered

\* Five paths on two CPUs: batches of three, the last unit with the two
\* paths that are left.
C30_Witness ==
    /\ called.fn = "hook_as_executable_units"
    /\ called.at = "returned"
    /\ called.hook.parameterize
    /\ Len(called.hook.files) = 5
    /\ called.cpu_count = 2
    /\ Len(value) = 2
    /\ Cardinality(value[1].targets) = 3
    /\ Cardinality(value[2].targets) = 2

\* The number of target files filter_hook_targets left to the hook of the
\* call, once hook_as_executable_units has returned units for them.
Filtered == Len(FilterHookTargets(called.hook))

PlannedTargets ==
    /\ called.fn = "hook_as_executable_units"
    /\ called.at = "returned"
    /\ Filtered >= 1

\* C31 as stated: the planner's parallelism P and the scheduler's max_running
\* are both max(cpu_count, 2), hence at least 2, and n >= 1 filtered target
\* files are planned as ceil(n / ceil(n / P)) units: two units on a machine
\* with one CPU whenever n >= 2.
C31_Original ==
    LET P == IF cpu_count = None \/ cpu_count < 2 THEN 2 ELSE cpu_count IN
    /\ max_running = P
    /\ max_running >= 2
    /\ PlannedTargets =>
        /\ Len(value) = Ceil(Filtered, Ceil(Filtered, P))
        /\ cpu_count = 1 /\ Filtered >= 2 => Len(value) = 2

\* C31, amended: the planner's parallelism P and the scheduler's max_running
\* are both "os.cpu_count() or 2": the CPU count when the machine reports
\* one, and 2 only when it reports none.  Both are at least 1.  n >= 1
\* filtered target files are planned as ceil(n / ceil(n / P)) units: a single
\* unit on a machine with one CPU, and two units for n >= 2 when the CPU
\* count is unknown.
C31_Amended ==
    LET P == IF cpu_count = None THEN 2 ELSE cpu_count IN
    /\ max_running = P
    /\ max_running >= 1
    /\ PlannedTargets =>
        /\ Len(value) = Ceil(Filtered, Ceil(Filtered, P))
        /\ cpu_count = 1 => Len(value) = 1
        /\ cpu_count = None /\ Filtered >= 2 => Len(value) = 2

\* Five target files on a machine with one CPU: one unit, one task at a time.
C31_Witness ==
    /\ PlannedTargets
    /\ cpu_count = 1
    /\ Filtered = 5
    /\ Len(value) = 1
    /\ max_running = 1

\* The rule of the target filter: the limit list is empty or a limit pattern
\* matches the path, and no exclude pattern matches it.
Included(path, exclude, limit) ==
    /\ limit = <<>> \/ \E p \in Range(limit) : Search(p, path)
    /\ \A p \in Range(exclude) : ~Search(p, path)

InStateDirectory(path) == path.dirs # <<>> /\ path.dirs[1] = ".goose"

\* C32: the matcher of _get_path_matcher includes a path iff (the limit list
\* is empty or the path matches a limit pattern) and the path matches no
\* exclude pattern, whichever of the lists are empty; get_targets_from_paths
\* applies that rule with the state directory's pattern among the excludes,
\* so it keeps, in their order, the paths the rule includes for
\* config.exclude and config.limit that are not in the state directory.
C32_IncludeRule ==
    /\ called.fn = "_get_path_matcher" /\ called.at = "returned" =>
        (value.is <=> Included(called.path, called.exclude, called.limit))
    /\ called.fn = "get_targets_from_paths" /\ called.at = "returned" =>
        LET kept == {i \in DOMAIN called.paths :
                        /\ Included(called.paths[i], called.exclude,
                                    called.limit)
                        /\ ~InStateDirectory(called.paths[i])}
            path_of == [i \in DOMAIN value.targets |-> value.targets[i].path]
        IN  /\ path_of = Restrict(called.paths, {called.paths[i] : i \in kept})
            /\ \A i \in DOMAIN path_of : ~InStateDirectory(path_of[i])

\* Limited to JSON files with nothing excluded in the configuration: a.json
\* is a target, .goose/state.json is not.
C32_Witness ==
    /\ called.fn = "get_targets_from_paths"
    /\ called.at = "returned"
    /\ called.exclude = <<>>
    /\ called.limit = <<WithExt("json")>>
    /\ \E i \in DOMAIN value.targets :
        value.targets[i].path = Path(<<>>, "a", "json")
    /\ \A i \in DOMAIN value.targets :
        value.targets[i].path # Path(<<".goose">>, "state", "json")

\* The id an environment of goose.yaml goes by.
IdOf(environment) ==
    IF environment.id = NoId THEN environment.ecosystem ELSE environment.id

EnvironmentIds(data) ==
    {IdOf(data.environments[i]) : i \in DOMAIN data.environments}

\* The three conditions on a configuration.
WellFormed(data) ==
    /\ \A i \in DOMAIN data.hooks :
        data.hooks[i].environment \in EnvironmentIds(data)
    /\ \A i, j \in DOMAIN data.hooks :
        i # j => data.hooks[i].id # data.hooks[j].id
    /\ \A i, j \in DOMAIN data.environments :
        i # j => IdOf(data.environments[i]) # IdOf(data.environments[j])

Accepted == called.fn = "gather_context" /\ called.config # NoValue

Rejected == called.fn = "gather_context" /\ called.at = "raised"

\* C33: a configuration is accepted only if every hook's environment id
\* names a configured environment, the hook ids are pairwise distinct and
\* the environment ids are pairwise distinct; one that violates any of the
\* three is rejected with a validation error, and then no environment is
\* built and no context is made: nothing can be prepared or run.
C33_ConfigValidated ==
    /\ Accepted => WellFormed(called.data)
    /\ called.fn = "gather_context" /\ ~WellFormed(called.data) =>
        /\ called.at \in {"mkdir", "load_config", "raised"}
        /\ called.config = NoValue
        /\ value \in {NoValue, ValidationError}
    /\ Rejected => value = ValidationError /\ ~WellFormed(called.data)

\* Two environments without id and of the same ecosystem, and one hook in
\* them: rejected for the environment id they share.
C33_Witness ==
    /\ Rejected
    /\ Len(called.data.environments) = 2
    /\ \A i \in 1..2 :
        called.data.environments[i] = [id |-> NoId, ecosystem |-> "python"]
    /\ called.data.hooks = <<[id |-> "A", environment |-> "python"]>>
    /\ value = ValidationError

StatusReturned == called.fn = "get_git_status" /\ called.at = "returned"

InSubmodule(entry) == entry.change # "?" /\ entry.submodule_state # "N..."

Plan == PlanOrder(units, selected_hook)

HookPosition(hook_id) == CHOOSE i \in DOMAIN HookIds : HookIds[i] = hook_id

PlanBefore(u, v) ==
    \/ HookPosition(u.hook) < HookPosition(v.hook)
    \/ u.hook = v.hook /\ u.id < v.id

InPlanOrder(us) ==
    \A i, j \in DOMAIN us : i < j => PlanBefore(us[i], us[j])

\* A unit that one of the three rules admits beside the running units given.
Admissible(unit, running) ==
    \/ running = {}
    \/ unit.targets \cap TargetsOf(running) = {}
    \/ ReadOnly(unit) /\ \A other \in running : ReadOnly(other)

\* C35: admission is greedy first-fit in plan order.  The remaining units
\* and the candidates of a pass are in plan order; a unit is admitted below
\* capacity only, admissible against the running set as it is then (the
\* units admitted earlier in the pass included), every remaining unit before
\* it in the plan being inadmissible against that set; its UnitScheduled
\* event follows, in plan order, a UnitScheduled event that it follows
\* directly (an event of the same pass, since _wait_next yields a
\* UnitFinished between two passes); and when a pass ends, the running set
\* is at capacity or no remaining unit is admissible against it.
C35_GreedyFirstFit ==
    [][/\ pc = "start" => InPlanOrder(Plan)
       /\ InPlanOrder(remaining_units)'
       /\ InPlanOrder(cand)'
       /\ \A unit \in RunningSet' \ RunningSet :
            /\ pc = "schedule_max"
            /\ Len(running_units) < max_running
            /\ Admissible(unit, RunningSet)
            /\ running_units' = Append(running_units, unit)
            /\ events' = Append(events, UnitScheduled(unit))
            /\ (events # <<>> /\ LastEvent.type = "UnitScheduled")
                    => PlanBefore(LastEvent.unit, unit)
            /\ \A earlier \in RemainingSet :
                PlanBefore(earlier, unit) => ~Admissible(earlier, RunningSet)
       /\ pc = "schedule_max" /\ pc' # "schedule_max" =>
            \/ Len(running_units) >= max_running
            \/ \A unit \in RemainingSet : ~Admissible(unit, RunningSet)]_vars

\* A pass has admitted the unit of A for x.py, passed over the unit of B for
\* the same file and admitted the unit of B for y.py; it ended below
\* capacity with the unit it passed over remaining.
C35_Witness ==
    /\ pc = "asyncio_wait"
    /\ Len(events) = 2
    /\ events[1] = UnitScheduled(ExecutableUnit(0, "A", {"x.py"}))
    /\ events[2] = UnitScheduled(ExecutableUnit(1, "B", {"y.py"}))
    /\ remaining_units = <<ExecutableUnit(0, "B", {"x.py"})>>
    /\ Len(running_units) < max_running
    /\ ~ReadOnly(events[1].unit)

\* C36: until_complete never waits on an empty running set.  asyncio.wait
\* is only ever called with a task to wait for (it raises ValueError
\* otherwise), and a pass of _schedule_max that leaves units remaining
\* leaves a unit running and is followed by that wait: with nothing running
\* the first remaining unit is always admitted.
C36_NeverWaitsOnNothing ==
    [][/\ (pc # "ValueError")'
       /\ (pc = "asyncio_wait" => running_units # <<>>)'
       /\ (pc \in {"asyncio_wait", "prune_running"} /\ remaining_units # <<>>
            => running_units # <<>>)'
       /\ (pc = "schedule_max" /\ pc' # "schedule_max"
                /\ remaining_units # <<>>) =>
            /\ running_units # <<>>
            /\ pc' = "asyncio_wait"
       /\ (pc = "schedule_max" /\ running_units = <<>> /\ cand # <<>>) =>
            /\ cand = remaining_units
            /\ running_units' = <<Head(remaining_units)>>]_vars

\* The first pass found nothing running and admitted the first unit of the
\* plan; every other unit clashes with it, so the pass ended below capacity
\* with units remaining, and until_complete waits for the one running unit.
C36_Witness ==
    /\ pc = "asyncio_wait"
    /\ max_running >= 2
    /\ remaining_units # <<>>
    /\ running_units = <<Plan[1]>>
    /\ events = <<UnitScheduled(Plan[1])>>
    /\ results = <<>>

\* The running units that have targets.
RunningOnFiles == {unit \in RunningSet : unit.targets # {}}

\* C37: when _schedule_max takes a unit without targets (the unit of a hook
\* that is not parameterized) as its candidate below capacity, it admits
\* it, whatever its read_only flag and whatever is running; and a candidate
\* that is passed over below capacity shares a file with a running unit that
\* has targets, so a running unit without targets blocks nobody through its
\* file set.
C37_EmptyTargetsAdmitted ==
    [][(pc = "schedule_max" /\ cand # <<>> /\ cand' = Tail(cand)
            /\ Len(running_units) < max_running) =>
        /\ Head(cand).targets = {} =>
            /\ running_units' = Append(running_units, Head(cand))
            /\ LastEvent' = UnitScheduled(Head(cand))
        /\ running_units' = running_units =>
            Head(cand).targets \cap TargetsOf(RunningOnFiles) # {}]_vars

\* The unit of a writing hook that is not parameterized runs beside a unit
\* of another writing hook that has targets; the unit without targets was
\* admitted second.
C37_Witness ==
    /\ Len(running_units) = 2
    /\ running_units[1].targets # {}
    /\ running_units[2].targets = {}
    /\ ~ReadOnly(running_units[1])
    /\ ~ReadOnly(running_units[2])
    /\ ~hooks[running_units[2].hook].parameterize

\* The paths whose status Environment.run compares for a unit: the paths
\* handed to git status, or every path when none is handed.
ComparedPaths(unit) == IF unit.targets = {} THEN Files ELSE unit.targets

\* Two units whose tasks are both still to complete.
RunningTogether(u, v) ==
    /\ u \in RunningSet /\ v \in RunningSet
    /\ u # v
    /\ task[u] = "pending" /\ task[v] = "pending"

\* C38 as stated: the set of files compared in the snapshots of a unit that
\* is not read_only (its targets, or the whole work tree when it has none)
\* never contains a target of another unit that is not read_only and runs
\* at the same time.
C38_Original ==
    \A u, v \in RunningSet :
        (RunningTogether(u, v) /\ ~ReadOnly(u) /\ ~ReadOnly(v))
            => ComparedPaths(u) \cap v.targets = {}

\* C39 as stated: when the preparations of two node environments have all
\* finished, the working directory is the one they started in.
C39_Original ==
    (\A env \in DOMAIN node_task :
        node_task[env].at \in {"returned", "RuntimeError"})
    => cwd = StartDirectory

\* The backend is being awaited by bootstrap, freeze or sync.
InBackend == env_pc \in {"bootstrap", "freeze", "sync"}

\* The state an operation sets once its backend call has returned.
Advanced(op, new_state) ==
    IF op = "sync"
    THEN new_state.kind = "synced" /\ new_state.stage = "synced"
    ELSE new_state = InitialState(IF op = "bootstrap" THEN "bootstrapped"
                                  ELSE "frozen", env_config.ecosystem)

\* C40: bootstrap, freeze and sync leave Environment.state and the state
\* file as they are when they call the backend and when the backend raises,
\* so after a failure both are what they were before the operation; they
\* change only in the step in which the backend call returns, to
\* Initial{bootstrapped}, Initial{frozen} or Synced, the file holding the
\* new state.
C40_FailureLeavesState ==
    [][/\ (~InBackend /\ InBackend') =>
            /\ state' = state
            /\ state_file' = state_file
            /\ ops'[Len(ops')] = Start(env_pc')
       /\ (InBackend /\ env_pc' = "Exception") =>
            /\ state' = state
            /\ state_file' = state_file
            /\ ops' = ops
       /\ (InBackend /\ (state' # state \/ state_file' # state_file)) =>
            /\ ops' = Append(ops, End(env_pc))
            /\ Advanced(env_pc, state')
            /\ ReadState' = state'
            /\ env_pc' \notin {"Exception", env_pc}]_vars

\* The backend's sync raised after a freeze that went through: the state in
\* memory and in the file is still Initial{frozen}.
C40_Witness ==
    /\ env_pc = "Exception"
    /\ ops # <<>>
    /\ ops[Len(ops)] = Start("sync")
    /\ \E i \in DOMAIN ops : ops[i] = End("freeze")
    /\ state = InitialState("frozen", env_config.ecosystem)
    /\ ReadState = state

====
